---------------------------- MODULE Spec2Model ----------------------------
(***************************************************************************)
(* Model of the Stream subsystem of src/src/core/stream.cpp:               *)
(*   - Stream                 the download driver (one QProcess)           *)
(*   - StreamCleanCache       the cache purge one-shot (one QProcess)      *)
(*   - StreamInfoDownloader   the metadata collector (two QProcess)        *)
(*   - StreamExtractorListCollector   the extractor listing (two QProcess) *)
(* A QProcess is modelled by its state() and by the signals Qt delivers on *)
(* the owner's thread: started, errorOccurred, readyRead*, finished.  The  *)
(* child's behaviour (what it prints, how it exits) is the input of the    *)
(* signal actions.                                                         *)
(***************************************************************************)
EXTENDS Integers, Sequences, FiniteSets, TLC

VARIABLES
    \* ---- Stream (download driver) ----
    m_selectedFormatId,             \* StreamFormatId: sequence of atomic tokens
    m_bytesReceived,
    m_bytesReceivedCurrentSection,
    m_bytesTotal,
    m_bytesTotalCurrentSection,
    m_fileExtension,
    sProc,                          \* m_process->state()
    sKilled,                        \* kill() was sent to the running child
    sLines,                         \* lines the child has printed in this run
    sEmitted,                       \* signals emitted by the last handler
    sRun,                           \* summary of the signals of this run (see Run0)
    sExit,                          \* the exit the last handler handled, if it was onFinished
    m_streamUrl,                    \* Stream::m_url
    m_outputPath,
    m_referringPage,
    s_youtubedl_user_agent,
    sCall,                          \* the start() call the last handler was, if it was start()
    \* ---- StreamInfoDownloader (metadata collector) + StreamCleanCache ----
    m_url,
    m_cancelled,
    m_dumpMap,
    m_flatList,
    m_isCleaned,
    dProc,                          \* m_processDumpJson
    fProc,                          \* m_processFlatList
    cProc,                          \* StreamCleanCache::m_process
    cEmitted,                       \* signals emitted by the last handler
    cGhost,                         \* history of the collector (see CGhost0)
    \* ---- StreamExtractorListCollector (extractor listing) ----
    m_processExtractors,            \* the --list-extractors child
    m_processDescriptions,          \* the --extractor-descriptions child
    m_extractors,
    m_descriptions,
    xEmitted,                       \* signals emitted by the last handler
    xRun,                           \* what happened since the last runAsync() (see XRun0)
    \* ---- StreamFormatId, character by character ----
    m_identifiers,                  \* the tokens, each a sequence of characters
    format_id,                      \* the text m_identifiers was parsed from
    \* ---- StreamInfo ----
    streamInfo,                     \* one StreamInfo (see StreamInfo0)
    infoCall,                       \* the last call made on it (see NoInfoCall)
    \* ---- StreamInfo: the title, character by character ----
    defaultTitle,
    m_userTitle,
    \* ---- Stream::matchesHost ----
    hostCall                        \* one call: host, regexHosts and what it returned

streamVars == << m_selectedFormatId, m_bytesReceived, m_bytesReceivedCurrentSection,
                 m_bytesTotal, m_bytesTotalCurrentSection, m_fileExtension,
                 sProc, sKilled, sLines, sEmitted, sRun, sExit,
                 m_streamUrl, m_outputPath, m_referringPage, s_youtubedl_user_agent,
                 sCall >>

\* what start() reads besides the selected format and the file extension
launchVars == << m_streamUrl, m_outputPath, m_referringPage, s_youtubedl_user_agent >>

collectorVars == << m_url, m_cancelled, m_dumpMap, m_flatList, m_isCleaned,
                    dProc, fProc, cProc, cEmitted, cGhost >>

extractorVars == << m_processExtractors, m_processDescriptions, m_extractors,
                    m_descriptions, xEmitted, xRun >>

formatIdVars == << m_identifiers, format_id >>

\* the value classes
infoVars == << streamInfo, infoCall >>

titleVars == << defaultTitle, m_userTitle >>

valueVars == << formatIdVars, infoVars, titleVars, hostCall >>

\* the frames of the actions of one object: the variables of the other objects
notStreamVars == << collectorVars, extractorVars, valueVars >>
notCollectorVars == << streamVars, extractorVars, valueVars >>
notExtractorVars == << streamVars, collectorVars, valueVars >>
processVars == << streamVars, collectorVars, extractorVars >>

vars == << processVars, valueVars >>

----------------------------------------------------------------------------
(* Bounds of the model *)

\* lines (stdout + stderr) one download child prints
MaxLines == 3
\* cap of the cumulative byte counter
MaxBytes == 140
\* abort() calls in one run
MaxAborts == 1
\* items (stdout lines) one probe prints
MaxItems == 2
\* characters of the text a StreamFormatId is parsed from
MaxIdChars == 4
\* atoms of the format id a user selects
MaxAtoms == 2
\* characters of the title a user sets
MaxTitleChars == 3
\* characters of a host, and of a pattern of hosts
MaxHostChars == 3
MaxPatternChars == 3

----------------------------------------------------------------------------
(* Program constants *)

C_EXIT_SUCCESS == 0

NormalExit == "NormalExit"
CrashExit  == "CrashExit"

C_NONE == "none"
C_DOWNLOAD_msg_header   == "[download]"
C_DOWNLOAD_next_section == "Destination:"
C_ERROR_msg_header_01   == "ERROR:"
C_ERROR_msg_header_02   == "\\033[0;31mERROR:\\033[0m"
C_WARNING_msg_header_01 == "WARNING:"
C_WARNING_msg_header_02 == "\\033[0;33mWARNING:\\033[0m"
C_WARNING_merge_output_format ==
    "Requested formats are incompatible for merge and will be merged into mkv."

ProcessCrashedMsg == "The process crashed."

----------------------------------------------------------------------------
(* Signals of Stream *)

EvProgress(r, t) == [type |-> "downloadProgress", received |-> r, total |-> t, msg |-> ""]
EvFinished       == [type |-> "downloadFinished", received |-> 0, total |-> 0, msg |-> ""]
EvError(m)       == [type |-> "downloadError", received |-> 0, total |-> 0, msg |-> m]
EvMetadata       == [type |-> "downloadMetadataChanged", received |-> 0, total |-> 0, msg |-> ""]

----------------------------------------------------------------------------
(* StreamFormatId, StreamFormat, StreamInfo *)

\* StreamFormatId::isEmpty
FormatIdIsEmpty(fid) == Len(fid) = 0

\* StreamFormatId::compoundIds: the atomic singletons, in order
CompoundIds(fid) == [i \in 1..Len(fid) |-> << fid[i] >>]

\* StreamFormat::hasVideo
HasVideo(format) == format.vcodec # C_NONE

\* StreamInfo::StreamInfo(): every field empty, m_error = NoError
StreamInfo0 ==
    [ id |-> "", defaultTitle |-> "", webpage_url |-> "", playlist_index |-> "",
      m_error |-> "NoError", defaultFormatId |-> << >>, m_userFormatId |-> << >>,
      defaultSuffix |-> "", m_userSuffix |-> "", formats |-> << >> ]

\* StreamInfo::formatId
FormatIdOf(si) ==
    IF FormatIdIsEmpty(si.m_userFormatId) THEN si.defaultFormatId ELSE si.m_userFormatId

\* sizes.value(id, 0) of the QMap filled by the loop over formats: a later
\* format with the same id replaces an earlier one
RECURSIVE SizesValue(_, _, _)
SizesValue(formats, id, k) ==
    IF k = 0 THEN 0
    ELSE IF formats[k].formatId = id THEN formats[k].filesize
         ELSE SizesValue(formats, id, k - 1)

RECURSIVE SumSizes(_, _, _)
SumSizes(formats, ids, k) ==
    IF k = 0 THEN 0
    ELSE SumSizes(formats, ids, k - 1) + SizesValue(formats, ids[k], Len(formats))

\* Mutant of StreamInfo::guestimateFullSize: an empty format id has size 0
GuestimateFullSize_EmptyIsZero(si, fid) == SumSizes(si.formats, CompoundIds(fid), Len(fid))

\* StreamInfo::guestimateFullSize(formatId)
GuestimateFullSize(si, fid) ==
    IF FormatIdIsEmpty(fid) THEN -1
    ELSE SumSizes(si.formats, CompoundIds(fid), Len(fid))

\* the double loop of StreamInfo::suffix(formatId): position (i, j) is atom
\* i of the composite against format j; `suffix` is the loop's local
RECURSIVE SuffixLoop(_, _, _, _, _)
SuffixLoop(formats, ids, i, j, suffix) ==
    IF i > Len(ids) THEN suffix
    ELSE IF j > Len(formats) THEN SuffixLoop(formats, ids, i + 1, 1, suffix)
    ELSE IF ids[i] = formats[j].formatId
         THEN IF HasVideo(formats[j]) THEN formats[j].ext
              ELSE SuffixLoop(formats, ids, i, j + 1, formats[j].ext)
         ELSE SuffixLoop(formats, ids, i, j + 1, suffix)

\* StreamInfo::suffix(formatId)
SuffixFor(si, fid) ==
    IF FormatIdIsEmpty(si.defaultFormatId) THEN "???"
    ELSE IF si.defaultFormatId = fid THEN si.defaultSuffix
    ELSE SuffixLoop(si.formats, CompoundIds(fid), 1, 1, si.defaultSuffix)

\* StreamInfo::suffix()
Suffix(si) == IF si.m_userSuffix = "" THEN SuffixFor(si, FormatIdOf(si)) ELSE si.m_userSuffix

\* The stream infos a consumer hands to initializeWithStreamInfo
Fmt(id, ext, size, v, a) ==
    [formatId |-> << id >>, ext |-> ext, filesize |-> size, vcodec |-> v, acodec |-> a]

SampleFormats ==
    << Fmt("22", "mp4", 100, "avc1", "mp4a"),
       Fmt("137", "webm", 100, "vp9", C_NONE),
       Fmt("251", "m4a", 40, C_NONE, "mp4a") >>

StreamInfoSamples ==
    { StreamInfo0,
      [StreamInfo0 EXCEPT !.id = "a", !.defaultFormatId = << "22" >>,
                          !.defaultSuffix = "mp4", !.formats = SampleFormats],
      [StreamInfo0 EXCEPT !.id = "a", !.defaultFormatId = << "22" >>,
                          !.m_userFormatId = << "137", "251" >>,
                          !.defaultSuffix = "mp4", !.formats = SampleFormats] }

----------------------------------------------------------------------------
(* Format::parsePercentDecimal and Format::parseBytes (Core/Format)        *)

\* the percentage of a token such as 50.0%, or -1 when it is no number
ParsePercentDecimal(token) ==
    CASE token = "0.0%"   -> 0
      [] token = "50.0%"  -> 50
      [] token = "100.0%" -> 100
      [] OTHER            -> -1

\* the bytes of a token such as 100B, or -1 when it is no size
ParseBytes(token) ==
    CASE token = "100B" -> 100
      [] token = "40B"  -> 40
      [] OTHER          -> -1

\* qCeil(a / b) for a >= 0 and b > 0
QCeilDiv(a, b) == (a + b - 1) \div b

\* token.contains(QChar('%')), on the tokens of the model
ContainsPercent(token) == token \in {"0.0%", "50.0%", "100.0%", "x%"}

\* QString::toLower, on the tokens of the model
ToLower(token) ==
    CASE token = "[DOWNLOAD]" -> "[download]"
      [] token = "Error:"     -> "error:"
      [] token = "ERROR:"     -> "error:"
      [] token = "WARNING:"   -> "warning:"
      [] token = "Warning:"   -> "warning:"
      [] token = "MKV"        -> "mkv"
      [] token = "Mp4"        -> "mp4"
      [] token = C_ERROR_msg_header_02   -> "\\033[0;31merror:\\033[0m"
      [] token = C_WARNING_msg_header_02 -> "\\033[0;33mwarning:\\033[0m"
      [] OTHER                -> token

\* What the download child may print on stdout: each line as the tokens of
\* data.split(QChar::Space, SkipEmptyParts) after simplified()
StdoutLines ==
    { << >>,
      << "[youtube]", "abc:", "Downloading", "webpage" >>,
      << "[download]", "Destination:", "out.f137.webm" >>,
      << "[download]", "Resuming" >>,
      << "[download]", "100.0%", "of", "100B" >>,
      << "[DOWNLOAD]", "50.0%", "of", "40B", "at", "1KiB/s" >>,
      << "[download]", "100.0%", "of", "40B" >>,
      << "[download]", "x%", "of", "100B" >>,
      << "[download]", "50.0%", "of", "~B" >> }

\* What the download child may print on stderr: the first token and whether
\* the line holds the merge warning text
StderrLines ==
    { [head |-> "ERROR:", merge |-> FALSE, text |-> "ERROR: unsupported URL"],
      [head |-> "WARNING:", merge |-> TRUE,
       text |-> "WARNING: Requested formats are incompatible for merge and will be merged into mkv."],
      [head |-> "WARNING:", merge |-> FALSE, text |-> "WARNING: unable to obtain file audio codec"],
      [head |-> "Traceback", merge |-> FALSE, text |-> "Traceback (most recent call last):"] }

\* data.startsWith(header, Qt::CaseInsensitive), on the first token
StartsWith(line, header) == ToLower(line.head) = ToLower(header)

----------------------------------------------------------------------------
(* Stream: the download driver *)

\* no exit was handled by the last handler
NoExit == [exitCode |-> 0, exitStatus |-> "none"]

\* the last handler was not start(); start() returned without a launch;
\* start() called m_process->start(C_PROGRAM_NAME, arguments)
NoCall == [called |-> FALSE, launched |-> FALSE, arguments |-> << >>]
NotLaunched == [called |-> TRUE, launched |-> FALSE, arguments |-> << >>]
Launched(arguments) == [called |-> TRUE, launched |-> TRUE, arguments |-> arguments]

\* StreamFormatId::toString: the atoms joined with '+'
RECURSIVE FormatIdToString(_)
FormatIdToString(fid) ==
    IF Len(fid) = 0 THEN ""
    ELSE IF Len(fid) = 1 THEN fid[1]
    ELSE fid[1] \o "+" \o FormatIdToString(Tail(fid))

\* Stream::isMergeFormat
IsMergeFormat(suffix) == ToLower(suffix) \in {"mkv", "mp4", "ogg", "webm", "flv"}

\* Mutant of the argument list of Stream::start: --referer is appended
\* before --user-agent
Arguments_RefererFirst(outputPath, formatId, url, userAgent, referringPage, fileExtension) ==
    << "--output", outputPath,
       "--no-playlist", "--no-color", "--no-check-certificate", "--no-overwrites",
       "--no-continue", "--no-part", "--no-mtime", "--no-cache-dir",
       "--restrict-filenames", "--ignore-config",
       "--format", FormatIdToString(formatId),
       url >>
    \o (IF referringPage # "" THEN << "--referer", referringPage >> ELSE << >>)
    \o (IF userAgent # "" THEN << "--user-agent", userAgent >> ELSE << >>)
    \o (IF IsMergeFormat(fileExtension)
        THEN << "--merge-output-format", fileExtension >> ELSE << >>)

\* Stream::start: the QStringList handed to m_process->start
Arguments(outputPath, formatId, url, userAgent, referringPage, fileExtension) ==
    << "--output", outputPath,
       "--no-playlist", "--no-color", "--no-check-certificate", "--no-overwrites",
       "--no-continue", "--no-part", "--no-mtime", "--no-cache-dir",
       "--restrict-filenames", "--ignore-config",
       "--format", FormatIdToString(formatId),
       url >>
    \o (IF userAgent # "" THEN << "--user-agent", userAgent >> ELSE << >>)
    \o (IF referringPage # "" THEN << "--referer", referringPage >> ELSE << >>)
    \o (IF IsMergeFormat(fileExtension)
        THEN << "--merge-output-format", fileExtension >> ELSE << >>)

\* Stream::isEmpty
IsEmpty == FormatIdIsEmpty(m_selectedFormatId)

\* Stream::_q_bytesTotal
QBytesTotal(bytesTotal, bytesTotalCurrentSection) ==
    IF bytesTotal > 0 THEN bytesTotal ELSE bytesTotalCurrentSection

\* The byte counters parseStandardOutput reads and writes
Counters ==
    [ bytesReceived               |-> m_bytesReceived,
      bytesReceivedCurrentSection |-> m_bytesReceivedCurrentSection,
      bytesTotal                  |-> m_bytesTotal,
      bytesTotalCurrentSection    |-> m_bytesTotalCurrentSection ]

Result(c, signals) == [counters |-> c, signals |-> signals]

\* Stream::parseStandardOutput, the section start branch
ParseNextSection(c) ==
    LET c1 == [c EXCEPT !.bytesReceived = c.bytesReceived + c.bytesReceivedCurrentSection]
    IN  Result(c1, << EvProgress(c1.bytesReceived,
                                 QBytesTotal(c1.bytesTotal, c1.bytesTotalCurrentSection)) >>)

\* Stream::parseStandardOutput, the last two statements
ParseEmitReceived(c) ==
    Result(c, << EvProgress(c.bytesReceived + c.bytesReceivedCurrentSection,
                            QBytesTotal(c.bytesTotal, c.bytesTotalCurrentSection)) >>)

\* Stream::parseStandardOutput, the progress line branch
ParseProgressLine(tokens, c) ==
    LET percent == ParsePercentDecimal(tokens[2])
        size    == ParseBytes(tokens[4])
        c1      == [c EXCEPT !.bytesTotalCurrentSection = size]
        c2      == [c1 EXCEPT !.bytesReceivedCurrentSection = QCeilDiv(percent * size, 100)]
    IN  IF percent < 0 THEN Result(c, << >>)
        ELSE IF size < 0 THEN Result(c1, << >>)
        ELSE ParseEmitReceived(c2)

\* Stream::parseStandardOutput
ParseStandardOutput(tokens, c) ==
    IF Len(tokens) = 0 THEN Result(c, << >>)
    ELSE IF ToLower(tokens[1]) # C_DOWNLOAD_msg_header THEN Result(c, << >>)
    ELSE IF Len(tokens) > 2 /\ tokens[2] = C_DOWNLOAD_next_section THEN ParseNextSection(c)
    ELSE IF Len(tokens) > 3 /\ ContainsPercent(tokens[2]) /\ tokens[3] = "of"
         THEN ParseProgressLine(tokens, c)
    ELSE ParseEmitReceived(c)

\* Stream::fileName: the parts of QString("%0.%1").arg(m_fileBaseName,
\* m_fileExtension), in order
FileName(fileBaseName, fileExtension) ==
    IF fileExtension = "" THEN << fileBaseName >>
    ELSE << fileBaseName, ".", fileExtension >>

\* Mutant of Stream::parseStandardError: every warning changes the extension
ParseStandardError_AnyWarning(line, fileExtension) ==
    IF StartsWith(line, C_ERROR_msg_header_01) \/ StartsWith(line, C_ERROR_msg_header_02)
    THEN [fileExtension |-> fileExtension, signals |-> << EvError(line.text) >>]
    ELSE IF StartsWith(line, C_WARNING_msg_header_01) \/ StartsWith(line, C_WARNING_msg_header_02)
         THEN [fileExtension |-> "mkv", signals |-> << EvMetadata >>]
         ELSE [fileExtension |-> fileExtension, signals |-> << >>]

\* Stream::parseStandardError: the new file extension and the signals
ParseStandardError(line, fileExtension) ==
    IF StartsWith(line, C_ERROR_msg_header_01) \/ StartsWith(line, C_ERROR_msg_header_02)
    THEN [fileExtension |-> fileExtension, signals |-> << EvError(line.text) >>]
    ELSE IF (StartsWith(line, C_WARNING_msg_header_01) \/ StartsWith(line, C_WARNING_msg_header_02))
            /\ line.merge
         THEN [fileExtension |-> "mkv", signals |-> << EvMetadata >>]
         ELSE [fileExtension |-> fileExtension, signals |-> << >>]

\* Mutants of Stream::onFinished
\* ... the final progress reports the bytes counted so far instead of the total
OnFinishedSignals_ReceivedSoFar(exitCode, exitStatus, c, errorMessage) ==
    IF exitStatus = NormalExit
    THEN IF exitCode = C_EXIT_SUCCESS
         THEN << EvProgress(c.bytesReceived + c.bytesReceivedCurrentSection,
                            QBytesTotal(c.bytesTotal, c.bytesTotalCurrentSection)),
                 EvFinished >>
         ELSE << EvError(errorMessage) >>
    ELSE << EvError(ProcessCrashedMsg) >>

\* ... a crash is also reported as finished
OnFinishedSignals_CrashFinishes(exitCode, exitStatus, c, errorMessage) ==
    IF exitStatus = NormalExit
    THEN IF exitCode = C_EXIT_SUCCESS
         THEN << EvProgress(QBytesTotal(c.bytesTotal, c.bytesTotalCurrentSection),
                            QBytesTotal(c.bytesTotal, c.bytesTotalCurrentSection)),
                 EvFinished >>
         ELSE << EvError(errorMessage) >>
    ELSE << EvError(ProcessCrashedMsg), EvFinished >>

\* ... the exit code is not looked at
OnFinishedSignals_NoExitCode(exitCode, exitStatus, c, errorMessage) ==
    IF exitStatus = NormalExit
    THEN << EvProgress(QBytesTotal(c.bytesTotal, c.bytesTotalCurrentSection),
                       QBytesTotal(c.bytesTotal, c.bytesTotalCurrentSection)),
            EvFinished >>
    ELSE << EvError(ProcessCrashedMsg) >>

\* Stream::onFinished: the signals of the exit handler
OnFinishedSignals(exitCode, exitStatus, c, errorMessage) ==
    IF exitStatus = NormalExit
    THEN IF exitCode = C_EXIT_SUCCESS
         THEN << EvProgress(QBytesTotal(c.bytesTotal, c.bytesTotalCurrentSection),
                            QBytesTotal(c.bytesTotal, c.bytesTotalCurrentSection)),
                 EvFinished >>
         ELSE << EvError(errorMessage) >>
    ELSE << EvError(ProcessCrashedMsg) >>

\* Summary of the signals emitted in one run, from start() to the child's exit:
\*   received    `received` of the last downloadProgress, -1 before the first
\*   decreased   some downloadProgress carried less than the one before it
\*   finished, errors, crashed   number of downloadFinished, of downloadError
\*               and of downloadError("The process crashed.")
\*   aborts      abort() calls
\*   afterAbort  types of the signals emitted after abort() returned
Run0 == [received |-> -1, decreased |-> FALSE, finished |-> 0, errors |-> 0,
         crashed |-> 0, aborts |-> 0, afterAbort |-> {}]

LogSignal(run, e) ==
    [run EXCEPT
       !.received   = IF e.type = "downloadProgress" THEN e.received ELSE @,
       !.decreased  = @ \/ (e.type = "downloadProgress" /\ e.received < run.received),
       !.finished   = IF e.type = "downloadFinished" THEN @ + 1 ELSE @,
       !.errors     = IF e.type = "downloadError" THEN @ + 1 ELSE @,
       !.crashed    = IF e.type = "downloadError" /\ e.msg = ProcessCrashedMsg THEN @ + 1 ELSE @,
       !.afterAbort = IF run.aborts > 0 THEN @ \cup {e.type} ELSE @]

RECURSIVE LogSignals(_, _)
LogSignals(run, signals) ==
    IF signals = << >> THEN run
    ELSE LogSignals(LogSignal(run, Head(signals)), Tail(signals))

\* Signals reach the consumer; those of a run are summarised in sRun
Emit(signals) ==
    /\ sEmitted' = signals
    /\ sRun' = IF sProc # "NotRunning" THEN LogSignals(sRun, signals) ELSE sRun

SetCounters(c) ==
    /\ m_bytesReceived' = c.bytesReceived
    /\ m_bytesReceivedCurrentSection' = c.bytesReceivedCurrentSection
    /\ m_bytesTotal' = c.bytesTotal
    /\ m_bytesTotalCurrentSection' = c.bytesTotalCurrentSection

\* Stream::clear.  The consumer prepares the driver between two runs.
Clear ==
    /\ sProc = "NotRunning"
    /\ m_selectedFormatId' = << >>
    /\ SetCounters([bytesReceived |-> 0, bytesReceivedCurrentSection |-> 0,
                    bytesTotal |-> 0, bytesTotalCurrentSection |-> 0])
    /\ m_fileExtension' = ""
    /\ Emit(<< >>)
    /\ sExit' = NoExit
    /\ sCall' = NoCall
    /\ UNCHANGED launchVars
    /\ UNCHANGED << sProc, sKilled, sLines, notStreamVars >>

\* Stream::initializeWithStreamInfo(streamInfo)
InitializeWith(si) ==
    /\ m_selectedFormatId' = FormatIdOf(si)
    /\ SetCounters([bytesReceived |-> 0, bytesReceivedCurrentSection |-> 0,
                    bytesTotal |-> 0,
                    bytesTotalCurrentSection |-> GuestimateFullSize(si, FormatIdOf(si))])
    /\ m_fileExtension' = Suffix(si)

\* Stream::initializeWithStreamInfo
InitializeWithStreamInfo ==
    /\ sProc = "NotRunning"
    /\ \E si \in StreamInfoSamples : InitializeWith(si)
    /\ Emit(<< >>)
    /\ sExit' = NoExit
    /\ sCall' = NoCall
    /\ UNCHANGED launchVars
    /\ UNCHANGED << sProc, sKilled, sLines, notStreamVars >>

\* StreamInfo::setSuffix
SetSuffix(si, suffix) ==
    [si EXCEPT !.m_userSuffix = IF suffix = si.defaultSuffix THEN "" ELSE suffix]

\* The suffixes a user types for the file to write
UserSuffixes == {"mp4", "MKV", "avi", "ogg"}

\* Stream::initializeWithStreamInfo, with a stream info whose suffix the
\* user has set
InitializeWithUserSuffix ==
    /\ sProc = "NotRunning"
    /\ \E si \in StreamInfoSamples, suffix \in UserSuffixes :
          InitializeWith(SetSuffix(si, suffix))
    /\ Emit(<< >>)
    /\ sExit' = NoExit
    /\ sCall' = NoCall
    /\ UNCHANGED << sProc, sKilled, sLines, launchVars, notStreamVars >>

\* What a consumer passes to setUrl, setLocalFullOutputPath,
\* setReferringPage and setUserAgent
StreamUrls == {"", "https://example.org/watch?v=a"}
OutputPaths == {"", "/tmp/out.mp4"}
ReferringPages == {"", "https://example.org/"}
UserAgents == {"", "Mozilla/5.0"}

\* the setters leave the process and the counters alone
SetterFrame ==
    /\ sEmitted' = << >>
    /\ sExit' = NoExit
    /\ sCall' = NoCall
    /\ UNCHANGED << m_selectedFormatId, m_bytesReceived, m_bytesReceivedCurrentSection,
                    m_bytesTotal, m_bytesTotalCurrentSection, m_fileExtension,
                    sProc, sKilled, sLines, sRun, notStreamVars >>

\* Stream::setUrl
SetUrl ==
    /\ \E url \in StreamUrls : m_streamUrl' = url
    /\ SetterFrame
    /\ UNCHANGED << m_outputPath, m_referringPage, s_youtubedl_user_agent >>

\* Stream::setLocalFullOutputPath
SetLocalFullOutputPath ==
    /\ \E outputPath \in OutputPaths : m_outputPath' = outputPath
    /\ SetterFrame
    /\ UNCHANGED << m_streamUrl, m_referringPage, s_youtubedl_user_agent >>

\* Stream::setReferringPage
SetReferringPage ==
    /\ \E referringPage \in ReferringPages : m_referringPage' = referringPage
    /\ SetterFrame
    /\ UNCHANGED << m_streamUrl, m_outputPath, s_youtubedl_user_agent >>

\* Stream::setUserAgent
SetUserAgent ==
    /\ \E userAgent \in UserAgents : s_youtubedl_user_agent' = userAgent
    /\ SetterFrame
    /\ UNCHANGED << m_streamUrl, m_outputPath, m_referringPage >>

\* The sizes a consumer passes to setFileSizeInBytes
FileSizes == {0, 100}

\* Stream::setFileSizeInBytes
SetFileSizeInBytes ==
    /\ \E n \in FileSizes : m_bytesTotal' = n
    /\ Emit(<< >>)
    /\ UNCHANGED << m_selectedFormatId, m_bytesReceived, m_bytesReceivedCurrentSection,
                    m_bytesTotalCurrentSection, m_fileExtension,
                    sProc, sKilled, sLines, notStreamVars >>
    /\ sExit' = NoExit
    /\ sCall' = NoCall
    /\ UNCHANGED launchVars

\* Mutant of Stream::start: the state of the process is not looked at
Start_AlwaysLaunches ==
    /\ IF ~IsEmpty
       THEN /\ sProc' = "Starting"
            /\ sKilled' = FALSE
            /\ sLines' = 0
            /\ sRun' = Run0
            /\ sCall' = Launched(Arguments(m_outputPath, m_selectedFormatId, m_streamUrl,
                                           s_youtubedl_user_agent, m_referringPage,
                                           m_fileExtension))
       ELSE /\ UNCHANGED << sProc, sKilled, sLines, sRun >>
            /\ sCall' = NotLaunched
    /\ sEmitted' = << >>
    /\ sExit' = NoExit
    /\ UNCHANGED launchVars
    /\ UNCHANGED << m_selectedFormatId, m_bytesReceived, m_bytesReceivedCurrentSection,
                    m_bytesTotal, m_bytesTotalCurrentSection, m_fileExtension,
                    notStreamVars >>

\* Stream::start
Start ==
    /\ IF ~IsEmpty /\ sProc = "NotRunning"
       THEN /\ sProc' = "Starting"
            /\ sKilled' = FALSE
            /\ sLines' = 0
            /\ sRun' = Run0
            /\ sCall' = Launched(Arguments(m_outputPath, m_selectedFormatId, m_streamUrl,
                                           s_youtubedl_user_agent, m_referringPage,
                                           m_fileExtension))
       ELSE /\ UNCHANGED << sProc, sKilled, sLines, sRun >>
            /\ sCall' = NotLaunched
    /\ sEmitted' = << >>
    /\ sExit' = NoExit
    /\ UNCHANGED launchVars
    /\ UNCHANGED << m_selectedFormatId, m_bytesReceived, m_bytesReceivedCurrentSection,
                    m_bytesTotal, m_bytesTotalCurrentSection, m_fileExtension,
                    notStreamVars >>

\* Stream::abort
Abort ==
    /\ sRun.aborts < MaxAborts
    /\ sKilled' = (sKilled \/ sProc # "NotRunning")
    /\ sEmitted' = << EvFinished >>
    /\ sRun' = IF sProc # "NotRunning"
               THEN [LogSignals(sRun, sEmitted') EXCEPT !.aborts = @ + 1]
               ELSE sRun
    /\ UNCHANGED << m_selectedFormatId, m_bytesReceived, m_bytesReceivedCurrentSection,
                    m_bytesTotal, m_bytesTotalCurrentSection, m_fileExtension,
                    sProc, sLines, notStreamVars >>
    /\ sExit' = NoExit
    /\ sCall' = NoCall
    /\ UNCHANGED launchVars

\* Stream::onStarted: the child runs
OnStarted ==
    /\ sProc = "Starting"
    /\ sProc' = "Running"
    /\ sEmitted' = << >>
    /\ UNCHANGED << m_selectedFormatId, m_bytesReceived, m_bytesReceivedCurrentSection,
                    m_bytesTotal, m_bytesTotalCurrentSection, m_fileExtension,
                    sKilled, sLines, sRun, notStreamVars >>
    /\ sExit' = NoExit
    /\ sCall' = NoCall
    /\ UNCHANGED launchVars

\* Stream::onError(FailedToStart): no finished() follows
OnErrorFailedToStart ==
    /\ sProc = "Starting"
    /\ sProc' = "NotRunning"
    /\ sEmitted' = << >>
    /\ sExit' = NoExit
    /\ sCall' = NoCall
    /\ UNCHANGED launchVars
    /\ UNCHANGED << m_selectedFormatId, m_bytesReceived, m_bytesReceivedCurrentSection,
                    m_bytesTotal, m_bytesTotalCurrentSection, m_fileExtension,
                    sKilled, sLines, sRun, notStreamVars >>

\* Stream::onStandardOutputReady, for one line of the child
OnStandardOutputReady ==
    /\ sProc = "Running"
    /\ sLines < MaxLines
    /\ \E tokens \in StdoutLines :
          LET r == ParseStandardOutput(tokens, Counters)
          IN  /\ r.counters.bytesReceived <= MaxBytes
              /\ SetCounters(r.counters)
              /\ Emit(r.signals)
    /\ sLines' = sLines + 1
    /\ sExit' = NoExit
    /\ sCall' = NoCall
    /\ UNCHANGED launchVars
    /\ UNCHANGED << m_selectedFormatId, m_fileExtension, sProc, sKilled, notStreamVars >>

\* Stream::onStandardErrorReady, for one line of the child
OnStandardErrorReady ==
    /\ sProc = "Running"
    /\ sLines < MaxLines
    /\ \E line \in StderrLines :
          LET r == ParseStandardError(line, m_fileExtension)
          IN  /\ m_fileExtension' = r.fileExtension
              /\ Emit(r.signals)
    /\ sLines' = sLines + 1
    /\ UNCHANGED << m_selectedFormatId, m_bytesReceived, m_bytesReceivedCurrentSection,
                    m_bytesTotal, m_bytesTotalCurrentSection, sProc, sKilled,
                    notStreamVars >>
    /\ sExit' = NoExit
    /\ sCall' = NoCall
    /\ UNCHANGED launchVars

\* The exit codes of a child, and what is left unread on its stderr
ExitCodes == {0, 1}
StderrTails == {"", "ERROR: unable to download video data"}

\* Stream::onFinished(exitCode, exitStatus).  A crash is a child killed by
\* kill() or from outside; a child that kill() reached too late exits normally.
OnFinished ==
    /\ sProc = "Running" \/ (sProc = "Starting" /\ sKilled)
    /\ \E exitCode \in ExitCodes, exitStatus \in {NormalExit, CrashExit},
          errorMessage \in StderrTails :
          /\ exitStatus = CrashExit => exitCode = 0
          /\ (exitStatus = CrashExit \/ exitCode = C_EXIT_SUCCESS)
                => errorMessage = ""
          /\ sProc = "Starting" => exitStatus = CrashExit
          /\ sExit' = [exitCode |-> exitCode, exitStatus |-> exitStatus]
          /\ sEmitted' = OnFinishedSignals(exitCode, exitStatus, Counters, errorMessage)
          /\ sRun' = LogSignals(sRun, sEmitted')
    /\ sProc' = "NotRunning"
    /\ sCall' = NoCall
    /\ UNCHANGED << m_selectedFormatId, m_bytesReceived, m_bytesReceivedCurrentSection,
                    m_bytesTotal, m_bytesTotalCurrentSection, m_fileExtension,
                    sKilled, sLines, launchVars, notStreamVars >>

StreamInit ==
    /\ m_selectedFormatId = << >>
    /\ m_bytesReceived = 0
    /\ m_bytesReceivedCurrentSection = 0
    /\ m_bytesTotal = 0
    /\ m_bytesTotalCurrentSection = 0
    /\ m_fileExtension = ""
    /\ sProc = "NotRunning"
    /\ sKilled = FALSE
    /\ sLines = 0
    /\ sEmitted = << >>
    /\ sRun = Run0
    /\ sExit = NoExit
    /\ m_streamUrl = ""
    /\ m_outputPath = ""
    /\ m_referringPage = ""
    /\ s_youtubedl_user_agent = ""
    /\ sCall = NoCall

StreamNext ==
    \/ Clear
    \/ InitializeWithStreamInfo
    \/ SetFileSizeInBytes
    \/ Start
    \/ Abort
    \/ OnStarted
    \/ OnErrorFailedToStart
    \/ OnStandardOutputReady
    \/ OnStandardErrorReady
    \/ OnFinished

\* The driver as a consumer sets it up and launches it: the child prints
\* nothing
LaunchNext ==
    \/ SetUrl
    \/ SetLocalFullOutputPath
    \/ SetReferringPage
    \/ SetUserAgent
    \/ InitializeWithStreamInfo
    \/ InitializeWithUserSuffix
    \/ Clear
    \/ Start
    \/ Abort
    \/ OnStarted
    \/ OnErrorFailedToStart
    \/ OnFinished

----------------------------------------------------------------------------
(* Properties of the download driver (SpecStream) *)

SignalTypes(signals) == {signals[i].type : i \in 1..Len(signals)}

\* C1: in one run, from start() to the child's exit and including the final
\* progress of exit code 0, the `received` argument of downloadProgress
\* never decreases.
C1_ReceivedNeverDecreases == ~sRun.decreased

\* C2: whenever bytesTotal > 0, every downloadProgress(received, total)
\* emitted satisfies received <= total.
C2_ReceivedWithinTotal ==
    m_bytesTotal > 0 =>
        \A i \in 1..Len(sEmitted) :
            sEmitted[i].type = "downloadProgress" => sEmitted[i].received <= sEmitted[i].total

\* C8: on a normal exit with code 0 the exit handler emits
\* downloadProgress(total, total), total being _q_bytesTotal(), immediately
\* followed by downloadFinished, and no downloadError.
C8_SuccessEmitsProgressThenFinished ==
    (sExit.exitStatus = NormalExit /\ sExit.exitCode = C_EXIT_SUCCESS) =>
        /\ Len(sEmitted) = 2
        /\ sEmitted[1] = EvProgress(QBytesTotal(m_bytesTotal, m_bytesTotalCurrentSection),
                                    QBytesTotal(m_bytesTotal, m_bytesTotalCurrentSection))
        /\ sEmitted[1].received = sEmitted[1].total
        /\ sEmitted[2] = EvFinished

\* the child printed progress of a section and then exited with code 0
C8_Witness ==
    /\ sExit.exitStatus = NormalExit /\ sExit.exitCode = C_EXIT_SUCCESS
    /\ m_bytesReceived > 0
    /\ m_bytesReceived + m_bytesReceivedCurrentSection
          # QBytesTotal(m_bytesTotal, m_bytesTotalCurrentSection)
    /\ sEmitted[1].total > 0

C10_FailureEmitsOnlyError ==
    (sExit.exitStatus = NormalExit /\ sExit.exitCode # C_EXIT_SUCCESS) =>
        /\ Len(sEmitted) = 1
        /\ SignalTypes(sEmitted) = {"downloadError"}

\* the child failed with a message left on its stderr
C10_Witness ==
    /\ sExit.exitStatus = NormalExit /\ sExit.exitCode = 1
    /\ sEmitted[1].msg # ""
    /\ sRun.received > 0

\* C11: abort() on a running driver is reported as downloadFinished and not
\* as an error: after abort() killed the child, no downloadError is emitted
\* for that run.
C11_NoErrorAfterAbort == "downloadError" \notin sRun.afterAbort

\* C12: after abort() returned, no downloadProgress and no
\* downloadMetadataChanged is emitted for the aborted run, even if output of
\* the child was still pending when it was killed.
C12_NoProgressAfterAbort ==
    sRun.afterAbort \cap {"downloadProgress", "downloadMetadataChanged"} = {}

\* the step parses a `[download] Destination: <path>` line after bytes of the section
\* were received: no other step of a running child raises m_bytesReceived
SectionStartStep ==
    /\ sProc = "Running" /\ sLines' = sLines + 1
    /\ m_bytesReceivedCurrentSection > 0
    /\ m_bytesReceived' = m_bytesReceived + m_bytesReceivedCurrentSection

\* C30: on a `[download] Destination: <path>` line the bytes received in the section
\* are added to m_bytesReceived and the counters of the section are set to zero.
C30_SectionStartResetsSection ==
    [][ SectionStartStep =>
           /\ m_bytesReceivedCurrentSection' = 0
           /\ m_bytesTotalCurrentSection' = 0 ]_vars

\* the two shapes of stdout lines the specification names
IsSectionStartLine(tokens) ==
    /\ Len(tokens) >= 3
    /\ ToLower(tokens[1]) = "[download]"
    /\ tokens[2] = "Destination:"

IsProgressLine(tokens) ==
    /\ Len(tokens) >= 4
    /\ ToLower(tokens[1]) = "[download]"
    /\ ContainsPercent(tokens[2])
    /\ tokens[3] = "of"

\* C31: a stdout line that is neither a section start line nor a progress
\* line, a `[download]` line of another shape included, causes no
\* downloadProgress and no change of the byte counters: whenever the child
\* runs, the handler of such a line emits nothing and keeps the counters.
C31_OtherLineIsIgnored ==
    sProc = "Running" =>
        \A tokens \in StdoutLines :
            (~IsSectionStartLine(tokens) /\ ~IsProgressLine(tokens)) =>
                ParseStandardOutput(tokens, Counters) = Result(Counters, << >>)

\* the classes of stderr lines the specification names
IsErrorLine(line) == ToLower(line.head) \in {"error:", ToLower(C_ERROR_msg_header_02)}
IsWarningLine(line) == ToLower(line.head) \in {"warning:", ToLower(C_WARNING_msg_header_02)}

\* the base names a stream info gives to the driver
FileBaseNames == {"", "out"}

EndsInMkv(name) ==
    /\ Len(name) >= 2
    /\ name[Len(name) - 1] = "."
    /\ name[Len(name)] = "mkv"

\* C32: whenever the child runs, the handler of a stderr line does this: a
\* warning line with the merge text sets fileExtension to "mkv" and emits
\* downloadMetadataChanged and nothing else; any other line that is no error
\* line emits nothing and keeps fileExtension.  After downloadMetadataChanged
\* fileName() ends in ".mkv", whatever the base name.
C32_MergeWarningSetsMkv ==
    /\ sProc = "Running" =>
          \A line \in StderrLines :
              LET r == ParseStandardError(line, m_fileExtension)
              IN  IF IsWarningLine(line) /\ line.merge
                  THEN r = [fileExtension |-> "mkv", signals |-> << EvMetadata >>]
                  ELSE ~IsErrorLine(line) =>
                          r = [fileExtension |-> m_fileExtension, signals |-> << >>]
    /\ sEmitted = << EvMetadata >> =>
          /\ m_fileExtension = "mkv"
          /\ \A base \in FileBaseNames : EndsInMkv(FileName(base, m_fileExtension))

\* the merge warning arrived for a download whose extension was "webm"
C32_Witness ==
    /\ sEmitted = << EvMetadata >>
    /\ m_selectedFormatId = << "137", "251" >>
    /\ m_fileExtension = "mkv"

\* C33: in one run, from start() to the child's exit, at most one terminal
\* notification reaches the consumer: the downloadFinished and downloadError
\* events of the run are at most one in all.
C33_AtMostOneTerminalEvent == sRun.finished + sRun.errors <= 1

\* a progress line whose percentage or whose size the parsers reject
IsUnparsableProgressLine(tokens) ==
    /\ IsProgressLine(tokens)
    /\ (ParsePercentDecimal(tokens[2]) < 0 \/ ParseBytes(tokens[4]) < 0)

\* C34: whenever the child runs, the handler of a progress line whose
\* percentage or size cannot be parsed emits no downloadProgress and keeps
\* the byte counters, and no downloadProgress reports a negative total.
C34_UnparsableProgressIsIgnored ==
    /\ sProc = "Running" =>
          \A tokens \in StdoutLines :
              IsUnparsableProgressLine(tokens) =>
                  ParseStandardOutput(tokens, Counters) = Result(Counters, << >>)
    /\ \A i \in 1..Len(sEmitted) :
          sEmitted[i].type = "downloadProgress" => sEmitted[i].total >= 0

----------------------------------------------------------------------------
(* StreamInfoDownloader: the metadata collector, and StreamCleanCache *)

\* A QProcess.  Between start() and the first signal that ends the child
\* (finished, or errorOccurred(FailedToStart)) the collector handles nothing
\* of it, so Starting and Running are one state here.
\*   killed   kill() was sent to the child
\*   stale    a later runAsync() found the child running and left it alone:
\*            it was not started by the most recent runAsync() (history)
\*   url      the URL in its argument list
Process0 == [state |-> "NotRunning", killed |-> FALSE, stale |-> FALSE, url |-> ""]

\* History of the collector, kept for the properties only:
\*   stopped     the consumer called stop() and not yet runAsync() again
\*   retries     times onCacheCleaned() re-entered runAsync()
\*   purgesDone  times the purge emitted done()
\*   last        the exit the last handler handled
\*   run         what was emitted since runAsync() was last entered: the texts
\*               of the errors, and whether `collected` was emitted
NoLast == [handler |-> "", exitCode |-> 0, exitStatus |-> "none", entries |-> 0]
Run0OfCollector == [errors |-> {}, collected |-> FALSE]
CGhost0 == [stopped |-> FALSE, retries |-> 0, purgesDone |-> 0, last |-> NoLast,
            run |-> Run0OfCollector]

\* Signals of StreamInfoDownloader
EvCollected(list) == [type |-> "collected", list |-> list, msg |-> ""]
EvCollectorError(msg) == [type |-> "error", list |-> << >>, msg |-> msg]

\* the history with the signals of a handler added to it
Logged(signals) ==
    [cGhost EXCEPT
       !.run.errors = @ \cup {signals[i].msg : i \in {j \in 1..Len(signals) :
                                                        signals[j].type = "error"}},
       !.run.collected = @ \/ (\E i \in 1..Len(signals) : signals[i].type = "collected")]

Urls == {"u1", "u2"}

\* One stdout line of the Dump probe: a JSON object with these keys, or text
\* that QJsonDocument::fromJson rejects
DumpJson(id, title, url, index) ==
    [valid |-> TRUE, id |-> id, title |-> title, webpage_url |-> url, playlist_index |-> index]
BadJson == [valid |-> FALSE, id |-> "", title |-> "", webpage_url |-> "", playlist_index |-> ""]

DumpStdoutLines ==
    { DumpJson("a", "Ta", "Ua", "7"), DumpJson("b", "", "", ""), BadJson }

\* One stderr line of the Dump probe, as str.split(":", SkipEmptyParts)
DumpStderrLines ==
    { << "ERROR", " a", " YouTube said", " Unable to extract video data" >>,
      << "WARNING unable to extract uploader" >> }

\* One stdout line of the Flat probe
FlatJson(id, title, url) == [valid |-> TRUE, id |-> id, title |-> title, url |-> url]
BadFlatJson == [valid |-> FALSE, id |-> "", title |-> "", url |-> ""]

FlatStdoutLines ==
    { FlatJson("a", "FTa", "FUa"), FlatJson("b", "FTb", "FUb"),
      FlatJson("", "FT", "FU"), BadFlatJson }

SeqsUpTo(S, n) == UNION {[1..k -> S] : k \in 0..n}

\* QString::trimmed, on the parts of the model
Trimmed(part) ==
    CASE part = " a" -> "a"
      [] part = " YouTube said" -> "YouTube said"
      [] part = " Unable to extract video data" -> "Unable to extract video data"
      [] OTHER -> part

\* QString::number, for the positions of a playlist
QStringNumber(n) == << "1", "2", "3", "4", "5", "6", "7", "8", "9" >>[n]

\* StreamInfoDownloader::parseDumpItemStdOut (the keys the model carries)
ParseDumpItemStdOut(line) ==
    IF ~line.valid THEN [StreamInfo0 EXCEPT !.m_error = "ErrorJsonFormat"]
    ELSE [StreamInfo0 EXCEPT !.id = line.id,
                             !.webpage_url = line.webpage_url,
                             !.defaultTitle = line.title,
                             !.playlist_index = line.playlist_index,
                             !.m_error = "NoError"]

\* getStreamId
GetStreamId(parts) == IF Len(parts) > 1 THEN Trimmed(parts[2]) ELSE ""

\* StreamInfoDownloader::parseDumpItemStdErr
ParseDumpItemStdErr(parts) ==
    [StreamInfo0 EXCEPT !.id = GetStreamId(parts), !.m_error = "ErrorUnavailable"]

\* QMap::insert: an entry with the same key is replaced
MapInsert(map, key, value) ==
    [k \in (DOMAIN map) \cup {key} |-> IF k = key THEN value ELSE map[k]]

RECURSIVE InsertAll(_, _, _)
InsertAll(map, infos, k) ==
    IF k > Len(infos) THEN map
    ELSE InsertAll(MapInsert(map, infos[k].id, infos[k]), infos, k + 1)

\* StreamInfoDownloader::parseDumpMap
ParseDumpMap(stdoutLines, stderrLines) ==
    LET out == [i \in 1..Len(stdoutLines) |-> ParseDumpItemStdOut(stdoutLines[i])]
        err == [i \in 1..Len(stderrLines) |-> ParseDumpItemStdErr(stderrLines[i])]
    IN  InsertAll(InsertAll(<< >>, out, 1), err, 1)

\* StreamInfoDownloader::parseFlatItem
ParseFlatItem(line) ==
    IF line.valid THEN [id |-> line.id, title |-> line.title, url |-> line.url]
    ELSE [id |-> "", title |-> "", url |-> ""]

\* StreamInfoDownloader::parseFlatList
ParseFlatList(stdoutLines) ==
    LET items == [i \in 1..Len(stdoutLines) |-> ParseFlatItem(stdoutLines[i])]
    IN  SelectSeq(items, LAMBDA item : item.id # "")

\* Mutant of createStreamInfo: the Flat title always replaces the Dump title
CreateStreamInfo_AlwaysFlatTitle(flatItem, dumpMap) ==
    LET si0 == IF flatItem.id # "" /\ flatItem.id \in DOMAIN dumpMap
               THEN dumpMap[flatItem.id]
               ELSE [StreamInfo0 EXCEPT !.m_error = "ErrorUnavailable"]
        si1 == [si0 EXCEPT !.defaultTitle = flatItem.title]
    IN  IF si1.webpage_url = "" THEN [si1 EXCEPT !.webpage_url = flatItem.url] ELSE si1

\* StreamInfoDownloader::createStreamInfo
CreateStreamInfo(flatItem, dumpMap) ==
    LET si0 == IF flatItem.id # "" /\ flatItem.id \in DOMAIN dumpMap
               THEN dumpMap[flatItem.id]
               ELSE [StreamInfo0 EXCEPT !.m_error = "ErrorUnavailable"]
        si1 == IF si0.defaultTitle = "" THEN [si0 EXCEPT !.defaultTitle = flatItem.title] ELSE si0
    IN  IF si1.webpage_url = "" THEN [si1 EXCEPT !.webpage_url = flatItem.url] ELSE si1

\* Mutant of onFinished: the playlist_index of the Dump JSON is kept
StreamInfoList_KeepsDumpIndex(flatList, dumpMap) ==
    [i \in 1..Len(flatList) |->
        LET si == CreateStreamInfo(flatList[i], dumpMap)
        IN  IF si.playlist_index = "" THEN [si EXCEPT !.playlist_index = QStringNumber(i)]
            ELSE si]

\* StreamInfoDownloader::onFinished, the list it builds
StreamInfoList(flatList, dumpMap) ==
    [i \in 1..Len(flatList) |->
        [CreateStreamInfo(flatList[i], dumpMap) EXCEPT !.playlist_index = QStringNumber(i)]]

\* StreamInfoDownloader::onFinished: the signals it emits
CollectorOnFinished(cancelled, dumpMap, flatList) ==
    IF cancelled THEN << EvCollectorError("Cancelled.") >>
    ELSE IF DOMAIN dumpMap # {} /\ Len(flatList) > 0
         THEN << EvCollected(StreamInfoList(flatList, dumpMap)) >>
         ELSE << >>

\* Mutant of onFinishedDumpJson: an empty map is passed over in silence
DumpJsonSignals_EmptyIsSilent(cancelled, map, flatList) ==
    IF DOMAIN map # {} THEN CollectorOnFinished(cancelled, map, flatList) ELSE << >>

\* StreamInfoDownloader::onFinishedDumpJson: the signals after a normal exit
\* that is not followed by the purge
DumpJsonSignals(cancelled, map, flatList) ==
    IF DOMAIN map # {}
    THEN CollectorOnFinished(cancelled, map, flatList)
    ELSE << EvCollectorError("Couldn't parse JSON file.") >>

\* Mutant of onFinishedFlatList: an empty list is passed over in silence
FlatListSignals_EmptyIsSilent(exitCode, cancelled, dumpMap, list) ==
    IF exitCode = C_EXIT_SUCCESS
    THEN IF Len(list) > 0 THEN CollectorOnFinished(cancelled, dumpMap, list) ELSE << >>
    ELSE << EvCollectorError("Couldn't parse playlist (ill-formed JSON file).") >>

\* StreamInfoDownloader::onFinishedFlatList: the signals after a normal exit,
\* `list` being m_flatList as the handler leaves it
FlatListSignals(exitCode, cancelled, dumpMap, list) ==
    IF exitCode = C_EXIT_SUCCESS
    THEN IF Len(list) > 0
         THEN CollectorOnFinished(cancelled, dumpMap, list)
         ELSE << EvCollectorError("Couldn't parse playlist (no data received).") >>
    ELSE << EvCollectorError("Couldn't parse playlist (ill-formed JSON file).") >>

\* Mutant of the exit handlers: an abnormal exit is passed over in silence
CrashedSignals_Silent == << >>

\* onFinishedDumpJson and onFinishedFlatList: the signals after an abnormal exit
CrashedSignals == << EvCollectorError(ProcessCrashedMsg) >>

\* Mutant of onFinishedDumpJson: isCleaned() is not looked at
RetryAfterPurge_IgnoresCleaned(exitCode, isCleaned, dumpMap) ==
    /\ exitCode # C_EXIT_SUCCESS
    /\ ~(Cardinality(DOMAIN dumpMap) > 1)

\* Mutant of the retry condition of onFinishedDumpJson: a playlist is retried too
RetryAfterPurge_RetriesPlaylists(exitCode, isCleaned, dumpMap) ==
    /\ exitCode # C_EXIT_SUCCESS
    /\ ~isCleaned

\* StreamInfoDownloader::onFinishedDumpJson: whether the cache is purged and
\* the probes are run again
RetryAfterPurge(exitCode, isCleaned, dumpMap) ==
    /\ exitCode # C_EXIT_SUCCESS
    /\ ~isCleaned
    /\ ~(Cardinality(DOMAIN dumpMap) > 1)

\* QProcess::start
Started(url) == [state |-> "Running", killed |-> FALSE, stale |-> FALSE, url |-> url]

\* runAsyncDumpJson / runAsyncFlatList: a probe that still runs is left alone
RunProbe(proc, url) ==
    IF proc.state = "NotRunning" THEN Started(url) ELSE [proc EXCEPT !.stale = TRUE]

\* StreamCleanCache::runAsync
RunCleanCache(proc) == IF proc.state = "NotRunning" THEN Started("") ELSE proc

\* QProcess::kill, under the guard of StreamInfoDownloader::stop
KillIfRunning(proc) == IF proc.state # "NotRunning" THEN [proc EXCEPT !.killed = TRUE] ELSE proc

\* The child is gone: finished() or errorOccurred(FailedToStart) was delivered
Gone(proc) == [proc EXCEPT !.state = "NotRunning"]

\* Mutant of StreamInfoDownloader::runAsync: the map and the list of the
\* run before are kept
DoRunAsync_KeepsLists(url, dump, flat) ==
    /\ m_url' = url
    /\ m_cancelled' = FALSE
    /\ UNCHANGED << m_dumpMap, m_flatList >>
    /\ dProc' = RunProbe(dump, url)
    /\ fProc' = RunProbe(flat, url)

\* StreamInfoDownloader::runAsync
DoRunAsync(url, dump, flat) ==
    /\ m_url' = url
    /\ m_cancelled' = FALSE
    /\ m_dumpMap' = << >>
    /\ m_flatList' = << >>
    /\ dProc' = RunProbe(dump, url)
    /\ fProc' = RunProbe(flat, url)

\* StreamInfoDownloader::runAsync, called by the consumer
RunAsync ==
    /\ \E url \in Urls : DoRunAsync(url, dProc, fProc)
    /\ cEmitted' = << >>
    /\ cGhost' = [cGhost EXCEPT !.stopped = FALSE, !.last = NoLast, !.run = Run0OfCollector]
    /\ UNCHANGED << m_isCleaned, cProc, notCollectorVars >>

\* StreamInfoDownloader::stop, called by the consumer
Stop ==
    /\ dProc' = KillIfRunning(dProc)
    /\ fProc' = KillIfRunning(fProc)
    /\ m_dumpMap' = << >>
    /\ m_flatList' = << >>
    /\ m_cancelled' = TRUE
    /\ cEmitted' = << >>
    /\ cGhost' = [cGhost EXCEPT !.stopped = TRUE, !.last = NoLast]
    /\ UNCHANGED << m_url, m_isCleaned, cProc, notCollectorVars >>

\* StreamInfoDownloader::onError(FailedToStart) of the Dump probe
OnErrorDumpJson ==
    /\ dProc.state = "Running"
    /\ dProc' = Gone(dProc)
    /\ m_dumpMap' = << >>
    /\ m_flatList' = << >>
    /\ cEmitted' = << >>
    /\ cGhost' = [cGhost EXCEPT !.last = NoLast]
    /\ UNCHANGED << m_url, m_cancelled, m_isCleaned, fProc, cProc, notCollectorVars >>

\* StreamInfoDownloader::onError(FailedToStart) of the Flat probe
OnErrorFlatList ==
    /\ fProc.state = "Running"
    /\ fProc' = Gone(fProc)
    /\ m_dumpMap' = << >>
    /\ m_flatList' = << >>
    /\ cEmitted' = << >>
    /\ cGhost' = [cGhost EXCEPT !.last = NoLast]
    /\ UNCHANGED << m_url, m_cancelled, m_isCleaned, dProc, cProc, notCollectorVars >>

\* The Dump probe crashed or was killed: errorOccurred(Crashed) runs onError,
\* then finished(_, CrashExit) runs onFinishedDumpJson
OnCrashedDumpJson ==
    /\ dProc.state = "Running"
    /\ dProc' = Gone(dProc)
    /\ m_dumpMap' = << >>
    /\ m_flatList' = << >>
    /\ cEmitted' = CrashedSignals
    /\ cGhost' = [Logged(cEmitted') EXCEPT
                    !.last = [handler |-> "onFinishedDumpJson", exitCode |-> 0,
                              exitStatus |-> CrashExit, entries |-> 0]]
    /\ UNCHANGED << m_url, m_cancelled, m_isCleaned, fProc, cProc, notCollectorVars >>

\* StreamInfoDownloader::onFinishedDumpJson(exitCode, NormalExit)
OnFinishedDumpJson ==
    /\ dProc.state = "Running"
    /\ \E exitCode \in ExitCodes, stdoutLines \in SeqsUpTo(DumpStdoutLines, MaxItems),
          stderrLines \in SeqsUpTo(DumpStderrLines, 1) :
          LET map == ParseDumpMap(stdoutLines, stderrLines)
          IN  /\ IF RetryAfterPurge(exitCode, m_isCleaned, map)
                 THEN \* stop(); m_streamCleanCache->runAsync(); return
                      /\ dProc' = Gone(dProc)
                      /\ fProc' = KillIfRunning(fProc)
                      /\ m_dumpMap' = << >>
                      /\ m_flatList' = << >>
                      /\ m_cancelled' = TRUE
                      /\ cProc' = RunCleanCache(cProc)
                      /\ cEmitted' = << >>
                 ELSE /\ dProc' = Gone(dProc)
                      /\ m_dumpMap' = map
                      /\ cEmitted' = DumpJsonSignals(m_cancelled, map, m_flatList)
                      /\ UNCHANGED << fProc, m_flatList, m_cancelled, cProc >>
              /\ cGhost' = [Logged(cEmitted') EXCEPT
                              !.last = [handler |-> "onFinishedDumpJson",
                                        exitCode |-> exitCode, exitStatus |-> NormalExit,
                                        entries |-> Cardinality(DOMAIN map)]]
    /\ UNCHANGED << m_url, m_isCleaned, notCollectorVars >>

\* The Flat probe crashed or was killed
OnCrashedFlatList ==
    /\ fProc.state = "Running"
    /\ fProc' = Gone(fProc)
    /\ m_dumpMap' = << >>
    /\ m_flatList' = << >>
    /\ cEmitted' = CrashedSignals
    /\ cGhost' = [Logged(cEmitted') EXCEPT
                    !.last = [handler |-> "onFinishedFlatList", exitCode |-> 0,
                              exitStatus |-> CrashExit, entries |-> 0]]
    /\ UNCHANGED << m_url, m_cancelled, m_isCleaned, dProc, cProc, notCollectorVars >>

\* StreamInfoDownloader::onFinishedFlatList(exitCode, NormalExit)
OnFinishedFlatList ==
    /\ fProc.state = "Running"
    /\ fProc' = Gone(fProc)
    /\ \E exitCode \in ExitCodes, stdoutLines \in SeqsUpTo(FlatStdoutLines, MaxItems) :
          /\ IF exitCode = C_EXIT_SUCCESS
             THEN LET list == ParseFlatList(stdoutLines)
                  IN  /\ m_flatList' = list
                      /\ cEmitted' = FlatListSignals(exitCode, m_cancelled, m_dumpMap, list)
             ELSE /\ stdoutLines = << >>
                  /\ cEmitted' = FlatListSignals(exitCode, m_cancelled, m_dumpMap, m_flatList)
                  /\ UNCHANGED m_flatList
          /\ cGhost' = [Logged(cEmitted') EXCEPT
                          !.last = [handler |-> "onFinishedFlatList",
                                    exitCode |-> exitCode, exitStatus |-> NormalExit,
                                    entries |-> 0]]
    /\ UNCHANGED << m_url, m_cancelled, m_dumpMap, m_isCleaned, dProc, cProc, notCollectorVars >>

\* StreamCleanCache::onError(FailedToStart): nothing but a log line
OnErrorCleanCache ==
    /\ cProc.state = "Running"
    /\ cProc' = Gone(cProc)
    /\ cEmitted' = << >>
    /\ cGhost' = [cGhost EXCEPT !.last = NoLast]
    /\ UNCHANGED << m_url, m_cancelled, m_dumpMap, m_flatList, m_isCleaned, dProc, fProc,
                    notCollectorVars >>

\* Mutant of StreamCleanCache::onFinished: only a clean exit counts
CleanCacheOnFinished_OnlyOnSuccess(exitCode, exitStatus, isCleaned) ==
    IF exitStatus = NormalExit /\ exitCode = C_EXIT_SUCCESS
    THEN [isCleaned |-> TRUE, done |-> 1]
    ELSE [isCleaned |-> isCleaned, done |-> 0]

\* StreamCleanCache::onFinished: m_isCleaned as it leaves it, and the number
\* of done() it emits
CleanCacheOnFinished(exitCode, exitStatus, isCleaned) ==
    [isCleaned |-> TRUE, done |-> 1]

\* StreamCleanCache::onFinished, for every exit of the purge child; its
\* done() runs StreamInfoDownloader::onCacheCleaned, which runs runAsync(m_url)
OnFinishedCleanCache ==
    /\ cProc.state = "Running"
    /\ cProc' = Gone(cProc)
    /\ cEmitted' = << >>
    /\ \E exitCode \in ExitCodes, exitStatus \in {NormalExit, CrashExit} :
          LET r == CleanCacheOnFinished(exitCode, exitStatus, m_isCleaned)
              last == [handler |-> "StreamCleanCache::onFinished",
                       exitCode |-> exitCode, exitStatus |-> exitStatus, entries |-> 0]
          IN  /\ exitStatus = CrashExit => exitCode = 0
              /\ m_isCleaned' = r.isCleaned
              /\ IF r.done > 0
                 THEN /\ DoRunAsync(m_url, dProc, fProc)
                      /\ cGhost' = [cGhost EXCEPT !.retries = @ + r.done,
                                                  !.purgesDone = @ + r.done,
                                                  !.last = last,
                                                  !.run = Run0OfCollector]
                 ELSE /\ cGhost' = [cGhost EXCEPT !.last = last]
                      /\ UNCHANGED << m_url, m_cancelled, m_dumpMap, m_flatList,
                                      dProc, fProc >>
    /\ UNCHANGED notCollectorVars

CollectorNext ==
    \/ RunAsync
    \/ Stop
    \/ OnErrorDumpJson
    \/ OnErrorFlatList
    \/ OnCrashedDumpJson
    \/ OnFinishedDumpJson
    \/ OnCrashedFlatList
    \/ OnFinishedFlatList
    \/ OnErrorCleanCache
    \/ OnFinishedCleanCache

CollectorInit ==
    /\ m_url = ""
    /\ m_cancelled = FALSE
    /\ m_dumpMap = << >>
    /\ m_flatList = << >>
    /\ m_isCleaned = FALSE
    /\ dProc = Process0
    /\ fProc = Process0
    /\ cProc = Process0
    /\ cEmitted = << >>
    /\ cGhost = CGhost0

----------------------------------------------------------------------------
(* Properties of the launch of the download child (SpecLaunch) *)

\* what start() could write: the members of Stream and the state of m_process
startVars == << m_selectedFormatId, m_bytesReceived, m_bytesReceivedCurrentSection,
                m_bytesTotal, m_bytesTotalCurrentSection, m_fileExtension,
                m_streamUrl, m_outputPath, m_referringPage, s_youtubedl_user_agent,
                sProc, sKilled, sLines >>

\* C13: start() launches no child and changes no state when selectedFormatId
\* is empty or a child is already running; a child is launched only when the
\* process is NotRunning, so the driver never has more than one child.
C13_StartIsNoOpUnlessIdle ==
    [][ sCall'.called =>
          /\ (IsEmpty \/ sProc # "NotRunning")
                => (~sCall'.launched /\ UNCHANGED startVars /\ sEmitted' = << >>)
          /\ sCall'.launched => (sProc = "NotRunning" /\ sProc' = "Starting") ]_vars

\* start() was called with a format selected while a child was running
C13_Witness ==
    /\ sCall.called /\ ~sCall.launched
    /\ ~IsEmpty
    /\ sProc = "Running"

\* the fixed head of the argument list of start()
FixedArguments ==
    << "--output", m_outputPath,
       "--no-playlist", "--no-color", "--no-check-certificate", "--no-overwrites",
       "--no-continue", "--no-part", "--no-mtime", "--no-cache-dir",
       "--restrict-filenames", "--ignore-config",
       "--format", FormatIdToString(m_selectedFormatId),
       m_streamUrl >>

\* the options that follow the head, `merge` telling whether
\* --merge-output-format is given
OptionalArguments(merge) ==
    (IF s_youtubedl_user_agent # "" THEN << "--user-agent", s_youtubedl_user_agent >>
     ELSE << >>)
    \o (IF m_referringPage # "" THEN << "--referer", m_referringPage >> ELSE << >>)
    \o (IF merge THEN << "--merge-output-format", m_fileExtension >> ELSE << >>)

\* C14 as the specification states it: the argument list of start() is the
\* fixed head followed by --user-agent iff the user agent is non-empty,
\* --referer iff the referring page is non-empty and --merge-output-format
\* iff the file extension is one of mkv, mp4, ogg, webm, flv.
C14_ArgumentVector ==
    sCall.launched =>
        sCall.arguments =
            FixedArguments
            \o OptionalArguments(m_fileExtension \in {"mkv", "mp4", "ogg", "webm", "flv"})

\* C14, amended: --merge-output-format <ext> is given iff the file extension
\* in lower case is one of mkv, mp4, ogg, webm, flv; the extension is passed
\* as it is written.
C14_ArgumentVectorAnyCase ==
    sCall.launched =>
        sCall.arguments =
            FixedArguments
            \o OptionalArguments(\E ext \in {"mkv", "mp4", "ogg", "webm", "flv"} :
                                     ToLower(m_fileExtension) = ext)

\* a launch with a composite format, a user agent, a referring page and the
\* extension MKV
C14_Witness ==
    /\ sCall.launched
    /\ Len(m_selectedFormatId) = 2
    /\ s_youtubedl_user_agent # "" /\ m_referringPage # ""
    /\ m_fileExtension = "MKV"
    /\ Len(sCall.arguments) = 21

----------------------------------------------------------------------------
(* Properties of the metadata collector (SpecCollector) *)

\* the lists carried by the `collected` signals of the last handler
Collected == {cEmitted[i].list : i \in {j \in 1..Len(cEmitted) : cEmitted[j].type = "collected"}}

\* C3: after the consumer called stop(), no `collected` is emitted until the
\* consumer itself calls runAsync() again.
C3_NoCollectedAfterStop == cGhost.stopped => Collected = {}

\* C4: the cache purge reports done at most once, the collector re-enters
\* runAsync from it at most once, and once the purge is done no other purge
\* is started, however many Dump runs exit non-zero.
C4_AtMostOneRetry ==
    /\ cGhost.retries <= 1
    /\ cGhost.purgesDone <= 1
    /\ m_isCleaned => cProc.state = "NotRunning"

\* after the retry a Dump run started by a runAsync() fails again: the JSON
\* error is emitted and no purge is started
C4_Witness ==
    /\ cGhost.retries = 1 /\ m_isCleaned
    /\ cGhost.last.handler = "onFinishedDumpJson"
    /\ cGhost.last.exitStatus = NormalExit /\ cGhost.last.exitCode = 1
    /\ ~dProc.stale
    /\ cEmitted = << EvCollectorError("Couldn't parse JSON file.") >>
    /\ cProc.state = "NotRunning"

\* C5: `collected` is emitted only after the Dump child and the Flat child
\* started by the most recent runAsync have both finished, and only when the
\* Dump map and the Flat list are both non-empty.
C5_CollectedAfterBothOfLastRun ==
    Collected # {} =>
        /\ dProc.state = "NotRunning" /\ ~dProc.stale
        /\ fProc.state = "NotRunning" /\ ~fProc.stale
        /\ DOMAIN m_dumpMap # {}
        /\ Len(m_flatList) > 0

\* C6: the list of `collected` has one StreamInfo per Flat entry, in Flat
\* order, and its i-th element has playlist_index i, whatever playlist_index
\* the Dump JSON carried.
C6_OnePerFlatEntryIndexed ==
    \A list \in Collected :
        /\ Len(list) = Len(m_flatList)
        /\ \A i \in 1..Len(list) :
              /\ list[i].playlist_index = QStringNumber(i)
              /\ list[i].id = IF m_flatList[i].id \in DOMAIN m_dumpMap
                               THEN m_flatList[i].id ELSE ""

\* a playlist of two entries listed in the order b, a, whose Dump JSON
\* carried another playlist_index
C6_Witness ==
    \E list \in Collected :
        /\ Len(list) = 2
        /\ list[1].id = "b" /\ list[2].id = "a"
        /\ m_dumpMap["a"].playlist_index = "7"

\* C7: a Flat entry whose id is a key of the Dump map yields that Dump entry
\* with its error status, any other a stub with error Unavailable; an empty
\* defaultTitle is filled from the Flat title and an empty webpage_url from
\* the Flat url, non-empty ones are left as they are.
C7_Reconciliation ==
    \A list \in Collected : \A i \in 1..Len(list) :
        LET flatItem == m_flatList[i]
            known    == flatItem.id \in DOMAIN m_dumpMap
            base     == IF known THEN m_dumpMap[flatItem.id] ELSE StreamInfo0
        IN  /\ list[i].m_error = IF known THEN base.m_error ELSE "ErrorUnavailable"
            /\ list[i].id = base.id
            /\ list[i].defaultTitle =
                  IF base.defaultTitle = "" THEN flatItem.title ELSE base.defaultTitle
            /\ list[i].webpage_url =
                  IF base.webpage_url = "" THEN flatItem.url ELSE base.webpage_url

\* a playlist with an entry the Dump describes, title and all, and an entry
\* the Dump does not know
C7_Witness ==
    \E list \in Collected :
        /\ Len(list) = 2
        /\ m_flatList[1].id = "a" /\ m_dumpMap["a"].defaultTitle = "Ta"
        /\ m_dumpMap["a"].m_error = "NoError"
        /\ m_flatList[2].id = "b" /\ "b" \notin DOMAIN m_dumpMap

\* the exit the last handler handled was this one
LastExit(handler, exitStatus) ==
    cGhost.last.handler = handler /\ cGhost.last.exitStatus = exitStatus

\* C15: when the Dump child finishes normally with an empty parsed map and no
\* purge retry is available (exit code 0, or the purge was already done),
\* error("Couldn't parse JSON file.") is emitted and `collected` is not.
C15_EmptyDumpIsJsonError ==
    (/\ LastExit("onFinishedDumpJson", NormalExit)
     /\ DOMAIN m_dumpMap = {}
     /\ (cGhost.last.exitCode = C_EXIT_SUCCESS \/ m_isCleaned))
    => cEmitted = << EvCollectorError("Couldn't parse JSON file.") >>

\* the Dump child printed nothing it could use and exited with code 0
C15_Witness ==
    /\ LastExit("onFinishedDumpJson", NormalExit)
    /\ cGhost.last.exitCode = C_EXIT_SUCCESS
    /\ ~m_isCleaned
    /\ DOMAIN m_dumpMap = {}
    /\ cEmitted = << EvCollectorError("Couldn't parse JSON file.") >>

\* the two texts that begin with "Couldn't parse playlist"
PlaylistErrors ==
    { "Couldn't parse playlist (no data received).",
      "Couldn't parse playlist (ill-formed JSON file)." }

\* C16: when the Flat child exits normally with a non-zero code, or with code
\* 0 and no item with a non-empty id, an error that begins with "Couldn't
\* parse playlist" is emitted, and no `collected` is emitted in a run that
\* had such an error, even if the Dump map holds usable items.
C16_FlatFailureIsPlaylistError ==
    /\ (/\ LastExit("onFinishedFlatList", NormalExit)
        /\ (cGhost.last.exitCode # C_EXIT_SUCCESS \/ m_flatList = << >>))
       => /\ Len(cEmitted) = 1
          /\ cEmitted[1].type = "error"
          /\ cEmitted[1].msg \in PlaylistErrors
    /\ cGhost.run.collected => cGhost.run.errors \cap PlaylistErrors = {}

\* the Flat child exits with a non-zero code after the Dump child gave a map
\* with a usable item
C16_Witness ==
    /\ LastExit("onFinishedFlatList", NormalExit)
    /\ cGhost.last.exitCode # C_EXIT_SUCCESS
    /\ \E id \in DOMAIN m_dumpMap : m_dumpMap[id].m_error = "NoError"
    /\ cEmitted = << EvCollectorError("Couldn't parse playlist (ill-formed JSON file).") >>

\* C17: when the Dump child or the Flat child exits abnormally,
\* error("The process crashed.") is emitted, and no `collected` is emitted in
\* a run that had such an exit.
C17_CrashIsError ==
    /\ (LastExit("onFinishedDumpJson", CrashExit) \/ LastExit("onFinishedFlatList", CrashExit))
       => cEmitted = << EvCollectorError(ProcessCrashedMsg) >>
    /\ cGhost.run.collected => ProcessCrashedMsg \notin cGhost.run.errors

\* the Flat child crashes by itself after the Dump child has finished
C17_Witness ==
    /\ LastExit("onFinishedFlatList", CrashExit)
    /\ ~fProc.killed
    /\ dProc.state = "NotRunning"
    /\ ProcessCrashedMsg \in cGhost.run.errors

\* C18: if the consumer calls stop() before both children have converged,
\* error("Cancelled.") is emitted for that job: once both killed children are
\* gone, the run has had it.
C18_StopIsCancelled ==
    (/\ cGhost.stopped
     /\ dProc.killed /\ dProc.state = "NotRunning"
     /\ fProc.killed /\ fProc.state = "NotRunning"
     /\ cProc.state = "NotRunning")
    => "Cancelled." \in cGhost.run.errors

\* C19: every job ends with an event: when runAsync() was called, the
\* consumer did not call stop() and no child is left running (each has
\* exited, crashed or failed to start, the purge included), `collected` or
\* an error was emitted.
C19_JobEndsWithEvent ==
    (/\ m_url # ""
     /\ ~cGhost.stopped
     /\ dProc.state = "NotRunning" /\ fProc.state = "NotRunning"
     /\ cProc.state = "NotRunning")
    => (cGhost.run.collected \/ cGhost.run.errors # {})

\* C20: when the purge child exits (code 0, another code, or a crash),
\* isCleaned becomes true and done is emitted exactly once; done is emitted
\* by nothing else, and isCleaned, once true, stays true.
C20_PurgeDoneOnceAndSticky ==
    [][ /\ m_isCleaned => m_isCleaned'
        /\ cGhost'.last.handler = "StreamCleanCache::onFinished"
              => (m_isCleaned' /\ cGhost'.purgesDone = cGhost.purgesDone + 1)
        /\ cGhost'.purgesDone # cGhost.purgesDone
              => cGhost'.last.handler = "StreamCleanCache::onFinished" ]_vars

\* the purge child crashed
C20_Witness ==
    /\ LastExit("StreamCleanCache::onFinished", CrashExit)
    /\ m_isCleaned
    /\ cGhost.purgesDone = 1

\* the step is the normal exit of the Dump child with a non-zero code
DumpFailedStep ==
    /\ cGhost'.last.handler = "onFinishedDumpJson"
    /\ cGhost'.last.exitStatus = NormalExit
    /\ cGhost'.last.exitCode # C_EXIT_SUCCESS

\* C28: when the Dump child exits normally with a non-zero code and the parsed map has
\* more than one entry, no purge and no probe is started, the Flat child and its list
\* are left as they are, and the handler goes on to onFinished() with the parsed map.
C28_PlaylistIsNotRetried ==
    [][ (DumpFailedStep /\ cGhost'.last.entries > 1) =>
           /\ cProc' = cProc
           /\ fProc' = fProc /\ m_flatList' = m_flatList
           /\ dProc'.state = "NotRunning"
           /\ m_cancelled' = m_cancelled
           /\ cGhost'.retries = cGhost.retries
           /\ Cardinality(DOMAIN m_dumpMap') = cGhost'.last.entries
           /\ cEmitted' = CollectorOnFinished(m_cancelled, m_dumpMap', m_flatList) ]_vars

\* a first Dump run of two entries exits with code 1 before any purge, the Flat child
\* still running
C28_Witness ==
    /\ cGhost.last.handler = "onFinishedDumpJson"
    /\ cGhost.last.exitStatus = NormalExit /\ cGhost.last.exitCode = 1
    /\ cGhost.last.entries = 2
    /\ Cardinality(DOMAIN m_dumpMap) = 2
    /\ ~m_isCleaned /\ cProc.state = "NotRunning" /\ cGhost.retries = 0
    /\ fProc.state = "Running" /\ ~fProc.killed

\* the step is the exit of the purge child, no probe of a run of the consumer alive
PurgeDoneStep ==
    /\ cGhost'.last.handler = "StreamCleanCache::onFinished"
    /\ cProc.state = "Running" /\ cProc'.state = "NotRunning"
    /\ dProc.state = "NotRunning"
    /\ fProc.state = "NotRunning" \/ fProc.killed

\* C29: when the Dump child exits normally with a non-zero code, at most one parsed
\* entry and the purge not yet done, the handler emits neither `collected` nor the JSON
\* error and the purge runs; when the purge child exits, however it exits, the Dump and
\* the Flat probe are both started again for the same URL, once.
C29_PurgeThenBothProbesAgain ==
    [][ /\ (DumpFailedStep /\ cGhost'.last.entries <= 1 /\ ~m_isCleaned) =>
              /\ cEmitted' = << >>
              /\ cProc'.state = "Running"
        /\ PurgeDoneStep =>
              /\ m_url' = m_url
              /\ dProc' = Started(m_url)
              /\ fProc' = Started(m_url)
              /\ cGhost'.retries = 1 ]_vars

\* the `collected` signals among the signals of a handler
CollectedIn(signals) == {i \in 1..Len(signals) : signals[i].type = "collected"}

\* C35: for each launch of the two probes, by runAsync() of the consumer or
\* by the retry after the purge, `collected` is emitted at most once: no
\* handler emits it twice, and once it was emitted since runAsync() was last
\* entered no later handler emits it.
C35_CollectedAtMostOncePerLaunch ==
    [][ /\ Cardinality(CollectedIn(cEmitted')) <= 1
        /\ cGhost.run.collected => CollectedIn(cEmitted') = {} ]_vars

\* `collected` of the retry after the purge, the Flat child having exited
\* before the Dump child
C35_Witness ==
    /\ cGhost.retries = 1
    /\ cGhost.last.handler = "onFinishedDumpJson"
    /\ CollectedIn(cEmitted) # {}
    /\ ~dProc.stale /\ ~fProc.stale

\* the step delivers the exit of the Flat child that the retry path killed:
\* the purge runs, the consumer called neither stop() nor runAsync() since
FlatExitDuringPurgeStep ==
    /\ cProc.state = "Running"
    /\ ~cGhost.stopped
    /\ fProc.state = "Running" /\ fProc.killed /\ ~fProc.stale
    /\ fProc'.state = "NotRunning"

\* C36: while the collector purges the cache and retries, its own stop()
\* causes no `error`: the exit of the Flat child killed by the retry path
\* emits neither "The process crashed." nor "Cancelled.".
C36_NoErrorFromInternalStop ==
    [][ FlatExitDuringPurgeStep =>
           \A i \in 1..Len(cEmitted') :
               cEmitted'[i].type = "error" =>
                   cEmitted'[i].msg \notin {ProcessCrashedMsg, "Cancelled."} ]_vars

\* C37: the list of `collected` is produced by children launched for the URL
\* of the most recent runAsync: when `collected` is emitted, the Dump child
\* and the Flat child that exited last were both started for m_url.
C37_CollectedIsForLastUrl ==
    CollectedIn(cEmitted) # {} => (dProc.url = m_url /\ fProc.url = m_url)

\* the StreamInfo of `id` in the lists of the `collected` signals
CollectedWithId(signals, id) ==
    {si \in UNION {{signals[k].list[j] : j \in 1..Len(signals[k].list)} :
                        k \in CollectedIn(signals)} : si.id = id}

\* C38: an item the Dump child printed as valid JSON on stdout is stored and
\* emitted with error NoError, whatever the child printed on stderr: when
\* the Dump child runs, for everything it may have printed at its exit, the
\* map the exit handler builds holds the item as NoError and so does every
\* list the handler emits.
C38_ValidItemStaysAvailable ==
    dProc.state = "Running" =>
        \A stdoutLines \in SeqsUpTo(DumpStdoutLines, MaxItems),
           stderrLines \in SeqsUpTo(DumpStderrLines, 1) :
            LET map == ParseDumpMap(stdoutLines, stderrLines)
                signals == DumpJsonSignals(m_cancelled, map, m_flatList)
            IN  \A i \in 1..Len(stdoutLines) :
                    stdoutLines[i].valid =>
                        /\ map[stdoutLines[i].id].m_error = "NoError"
                        /\ \A si \in CollectedWithId(signals, stdoutLines[i].id) :
                               si.m_error = "NoError"

----------------------------------------------------------------------------
(* StreamExtractorListCollector: the extractor listing *)

EvListCollected(extractors, descriptions) ==
    [type |-> "collected", extractors |-> extractors, descriptions |-> descriptions]
EvListError(message) == [type |-> "error", message |-> message]
EvListFinished == [type |-> "finished"]

\* what a listing child prints on stdout: a sequence of pieces of text, "\n" the newline
ListOutputs == { <<>>, << "youtube" >>, << "youtube", "\n" >>, << "youtube", "\n", "vimeo" >> }
\* what a listing child prints on stderr
ListErrors == { "", "ERROR: no network" }

\* data.split(QChar('\n'), QString::KeepEmptyParts), from piece k on, `current` the
\* text read since the last newline
RECURSIVE SplitKeepEmptyParts(_, _, _)
SplitKeepEmptyParts(data, k, current) ==
    IF k > Len(data) THEN << current >>
    ELSE IF data[k] = "\n" THEN << current >> \o SplitKeepEmptyParts(data, k + 1, "")
    ELSE SplitKeepEmptyParts(data, k + 1, current \o data[k])

\* Since the last runAsync() that started a child: how each child ended ("idle" never
\* started, "running", "ok" exit code 0, "failed" other exit code, "crashed",
\* "notstarted"), whether `collected` was emitted, and the end the last handler handled;
\* the number of `finished` emitted; the calls of runAsync() so far (2: two or more).
XRun0 == [extractors |-> "idle", descriptions |-> "idle", collected |-> FALSE, last |-> "none",
          finished |-> 0, calls |-> 0]

\* StreamExtractorListCollector::onFinished
ListOnFinished(extractors, descriptions) ==
    IF extractors # <<>> /\ descriptions # <<>>
    THEN << EvListCollected(extractors, descriptions), EvListFinished >>
    ELSE <<>>

\* the end of a child that exited normally
ExitOf(exitCode) == IF exitCode = C_EXIT_SUCCESS THEN "ok" ELSE "failed"

ListLogged(signals) == \E i \in 1..Len(signals) : signals[i].type = "collected"

ListFinishedIn(signals) == Cardinality({i \in 1..Len(signals) : signals[i].type = "finished"})

\* the calls of runAsync(), this one counted
CallsAfter(calls) == IF calls < 2 THEN calls + 1 ELSE 2

\* StreamExtractorListCollector::runAsync
ExtractorListRunAsync ==
    LET startsExtractors == m_processExtractors = "NotRunning"
        startsDescriptions == m_processDescriptions = "NotRunning"
    IN  /\ m_processExtractors' = "Running"
        /\ m_processDescriptions' = "Running"
        /\ xEmitted' = <<>>
        /\ xRun' = IF startsExtractors \/ startsDescriptions
                   THEN [extractors |-> IF startsExtractors THEN "running" ELSE xRun.extractors,
                         descriptions |-> IF startsDescriptions THEN "running"
                                          ELSE xRun.descriptions,
                         collected |-> FALSE, last |-> "none",
                         finished |-> 0, calls |-> CallsAfter(xRun.calls)]
                   ELSE [xRun EXCEPT !.last = "none", !.calls = CallsAfter(@)]
        /\ UNCHANGED << m_extractors, m_descriptions, notExtractorVars >>

\* errorOccurred(FailedToStart) of the --list-extractors child: onError, no finished()
OnErrorExtractors ==
    /\ m_processExtractors = "Running"
    /\ m_processExtractors' = "NotRunning"
    /\ m_extractors' = <<>>
    /\ m_descriptions' = <<>>
    /\ xEmitted' = <<>>
    /\ xRun' = [xRun EXCEPT !.extractors = "notstarted", !.last = "none"]
    /\ UNCHANGED << m_processDescriptions, notExtractorVars >>

\* errorOccurred(FailedToStart) of the --extractor-descriptions child
OnErrorDescriptions ==
    /\ m_processDescriptions = "Running"
    /\ m_processDescriptions' = "NotRunning"
    /\ m_extractors' = <<>>
    /\ m_descriptions' = <<>>
    /\ xEmitted' = <<>>
    /\ xRun' = [xRun EXCEPT !.descriptions = "notstarted", !.last = "none"]
    /\ UNCHANGED << m_processExtractors, notExtractorVars >>

\* the --list-extractors child crashes: errorOccurred(Crashed) runs onError, then
\* finished(_, CrashExit) runs onFinishedExtractors
OnCrashedExtractors ==
    /\ m_processExtractors = "Running"
    /\ m_processExtractors' = "NotRunning"
    /\ m_extractors' = <<>>
    /\ m_descriptions' = <<>>
    /\ xEmitted' = << EvListError(ProcessCrashedMsg), EvListFinished >>
    /\ xRun' = [xRun EXCEPT !.extractors = "crashed", !.last = "crashed",
                            !.finished = @ + ListFinishedIn(xEmitted')]
    /\ UNCHANGED << m_processDescriptions, notExtractorVars >>

\* the --extractor-descriptions child crashes
OnCrashedDescriptions ==
    /\ m_processDescriptions = "Running"
    /\ m_processDescriptions' = "NotRunning"
    /\ m_extractors' = <<>>
    /\ m_descriptions' = <<>>
    /\ xEmitted' = << EvListError(ProcessCrashedMsg), EvListFinished >>
    /\ xRun' = [xRun EXCEPT !.descriptions = "crashed", !.last = "crashed",
                            !.finished = @ + ListFinishedIn(xEmitted')]
    /\ UNCHANGED << m_processExtractors, notExtractorVars >>

\* StreamExtractorListCollector::onFinishedExtractors, exitStatus = NormalExit
OnFinishedExtractors ==
    /\ m_processExtractors = "Running"
    /\ \E exitCode \in ExitCodes, data \in ListOutputs, message \in ListErrors :
          /\ m_processExtractors' = "NotRunning"
          /\ m_extractors' = IF exitCode = C_EXIT_SUCCESS
                             THEN SplitKeepEmptyParts(data, 1, "") ELSE m_extractors
          /\ xEmitted' = IF exitCode = C_EXIT_SUCCESS
                         THEN ListOnFinished(m_extractors', m_descriptions)
                         ELSE << EvListError(message), EvListFinished >>
          /\ xRun' = [xRun EXCEPT !.extractors = ExitOf(exitCode),
                                  !.collected = @ \/ ListLogged(xEmitted'),
                                  !.last = ExitOf(exitCode),
                                  !.finished = @ + ListFinishedIn(xEmitted')]
    /\ UNCHANGED << m_processDescriptions, m_descriptions, notExtractorVars >>

\* StreamExtractorListCollector::onFinishedDescriptions, exitStatus = NormalExit
OnFinishedDescriptions ==
    /\ m_processDescriptions = "Running"
    /\ \E exitCode \in ExitCodes, data \in ListOutputs, message \in ListErrors :
          /\ m_processDescriptions' = "NotRunning"
          /\ m_descriptions' = IF exitCode = C_EXIT_SUCCESS
                               THEN SplitKeepEmptyParts(data, 1, "") ELSE m_descriptions
          /\ xEmitted' = IF exitCode = C_EXIT_SUCCESS
                         THEN ListOnFinished(m_extractors, m_descriptions')
                         ELSE << EvListError(message), EvListFinished >>
          /\ xRun' = [xRun EXCEPT !.descriptions = ExitOf(exitCode),
                                  !.collected = @ \/ ListLogged(xEmitted'),
                                  !.last = ExitOf(exitCode),
                                  !.finished = @ + ListFinishedIn(xEmitted')]
    /\ UNCHANGED << m_processExtractors, m_extractors, notExtractorVars >>

ExtractorListNext ==
    \/ ExtractorListRunAsync
    \/ OnErrorExtractors
    \/ OnErrorDescriptions
    \/ OnCrashedExtractors
    \/ OnCrashedDescriptions
    \/ OnFinishedExtractors
    \/ OnFinishedDescriptions

\* StreamExtractorListCollector::StreamExtractorListCollector
ExtractorListInit ==
    /\ m_processExtractors = "NotRunning"
    /\ m_processDescriptions = "NotRunning"
    /\ m_extractors = <<>>
    /\ m_descriptions = <<>>
    /\ xEmitted = <<>>
    /\ xRun = XRun0

----------------------------------------------------------------------------
(* Properties of the extractor listing (SpecExtractorList) *)

ListFailed(end) == end \in {"failed", "crashed"}

\* C21: `collected` is emitted only when both children of the run have exited normally
\* with code 0; the handler of a child that exits non-zero or crashes emits `error`
\* followed by `finished`, and a run with such a child has no `collected`.
C21_CollectedOnlyWhenBothSucceeded ==
    /\ ListLogged(xEmitted) => xRun.extractors = "ok" /\ xRun.descriptions = "ok"
    /\ ListFailed(xRun.last) =>
          /\ Len(xEmitted) = 2
          /\ xEmitted[1].type = "error"
          /\ xEmitted[2] = EvListFinished
    /\ (ListFailed(xRun.extractors) \/ ListFailed(xRun.descriptions)) => ~xRun.collected

\* C39: for each runAsync() of the extractor listing, `finished` is emitted
\* exactly once, whatever the outcomes of the two children: never more than
\* once since runAsync() started a child, and once when both children are gone.
C39_FinishedExactlyOnce ==
    /\ xRun.finished <= 1
    /\ (xRun.calls > 0 /\ m_processExtractors = "NotRunning"
                       /\ m_processDescriptions = "NotRunning") => xRun.finished = 1

\* C40: when runAsync() was called a second time, `collected` is emitted only
\* after both children of that run have exited with code 0, so that both
\* lists it carries were read in that run.
C40_SecondRunCollectsItsOwnLists ==
    (xRun.calls = 2 /\ ListLogged(xEmitted)) =>
        (xRun.extractors = "ok" /\ xRun.descriptions = "ok")

----------------------------------------------------------------------------
(* StreamFormatId, character by character *)

\* QString::split(separators, QString::SkipEmptyParts), from character k on,
\* `current` the characters read since the last separator
RECURSIVE SplitSkipEmptyParts(_, _, _, _)
SplitSkipEmptyParts(text, separators, k, current) ==
    IF k > Len(text) THEN (IF current = <<>> THEN <<>> ELSE << current >>)
    ELSE IF text[k] \in separators
         THEN (IF current = <<>> THEN <<>> ELSE << current >>)
              \o SplitSkipEmptyParts(text, separators, k + 1, <<>>)
         ELSE SplitSkipEmptyParts(text, separators, k + 1, Append(current, text[k]))

\* QChar::isSpace, on the characters of the model
Whitespace == {" ", "\t"}

\* QStringList::join(separator)
RECURSIVE Join(_, _)
Join(list, separator) ==
    IF Len(list) = 0 THEN <<>>
    ELSE IF Len(list) = 1 THEN list[1]
    ELSE list[1] \o << separator >> \o Join(Tail(list), separator)

\* StreamFormatId::fromString: the identifiers of a text
FromString(text) == SplitSkipEmptyParts(text, {"+"}, 1, <<>>)

\* Mutant of StreamFormatId::toString: the identifiers are joined without a separator
RECURSIVE IdentifiersToString_NoSeparator(_)
IdentifiersToString_NoSeparator(identifiers) ==
    IF Len(identifiers) = 0 THEN <<>>
    ELSE identifiers[1] \o IdentifiersToString_NoSeparator(Tail(identifiers))

\* StreamFormatId::toString
IdentifiersToString(identifiers) == Join(identifiers, "+")

\* StreamFormatId::compoundIds: one StreamFormatId(identifier) per identifier
CompoundIdsOf(identifiers) == [i \in 1..Len(identifiers) |-> FromString(identifiers[i])]

\* StreamFormatId::operator==
FormatIdEquals(a, b) == IdentifiersToString(a) = IdentifiersToString(b)

\* the characters of the texts a format id is parsed from: two of a token, the
\* separator and a space
IdAlphabet == {"1", "2", "+", " "}

\* StreamFormatId::StreamFormatId(format_id), or fromString(format_id)
FormatIdFromString ==
    /\ \E text \in SeqsUpTo(IdAlphabet, MaxIdChars) :
          /\ format_id' = text
          /\ m_identifiers' = FromString(text)
    /\ UNCHANGED << processVars, infoVars, titleVars, hostCall >>

\* a copy made through the string form: StreamFormatId(other.toString())
FormatIdFromToString ==
    /\ format_id' = IdentifiersToString(m_identifiers)
    /\ m_identifiers' = FromString(IdentifiersToString(m_identifiers))
    /\ UNCHANGED << processVars, infoVars, titleVars, hostCall >>

FormatIdNext == FormatIdFromString \/ FormatIdFromToString

\* StreamFormatId::StreamFormatId(QString())
FormatIdInit ==
    /\ format_id = <<>>
    /\ m_identifiers = FromString(<<>>)

----------------------------------------------------------------------------
(* Properties of StreamFormatId (SpecFormatId) *)

\* the string forms of the compound ids, in order
CompoundStrings(identifiers) ==
    [i \in 1..Len(identifiers) |-> IdentifiersToString(CompoundIdsOf(identifiers)[i])]

\* C22: parsing the string form of a format id gives back the same tokens in the same
\* order, an id equal to it, and the string forms of its compound ids joined with '+'
\* are its string form.
C22_RoundTrip ==
    /\ FromString(IdentifiersToString(m_identifiers)) = m_identifiers
    /\ FormatIdEquals(FromString(IdentifiersToString(m_identifiers)), m_identifiers)
    /\ Join(CompoundStrings(m_identifiers), "+") = IdentifiersToString(m_identifiers)

\* a format id of two different tokens parsed from a text with empty parts
C22_Witness ==
    /\ Len(m_identifiers) = 2
    /\ m_identifiers[1] # m_identifiers[2]
    /\ Len(format_id) > Len(IdentifiersToString(m_identifiers))
    /\ C22_RoundTrip

\* C23: the string form of a format id parsed from any text contains no whitespace,
\* and '+' only between two non-empty tokens.
C23_NoWhitespaceOnlySeparators ==
    LET text == IdentifiersToString(m_identifiers)
    IN  /\ \A k \in 1..Len(text) : text[k] \notin Whitespace
        /\ \A k \in 1..Len(text) :
              text[k] = "+" => /\ 1 < k /\ k < Len(text)
                               /\ text[k - 1] # "+" /\ text[k + 1] # "+"

----------------------------------------------------------------------------
(* StreamInfo: the format, the suffix and the size a user sees *)

\* StreamInfo::setFormatId
SetFormatId(si, formatId) ==
    [si EXCEPT !.m_userSuffix = "",
               !.m_userFormatId = IF formatId = si.defaultFormatId THEN <<>> ELSE formatId]

\* The stream infos the parser builds: any default format, default suffix and formats
InfoSamples ==
    { [StreamInfo0 EXCEPT !.id = "a", !.defaultFormatId = fid, !.defaultSuffix = suffix,
                          !.formats = formats] :
        fid \in { <<>>, << "22" >>, << "137", "251" >> },
        suffix \in { "mp4", "webm" },
        formats \in { <<>>, SampleFormats } }

\* The atoms of the format ids a user selects: three formats and one that is none
InfoAtoms == { "22", "137", "251", "999" }

\* The suffixes a user sets
InfoSuffixes == UserSuffixes \cup { "", "webm" }

NoInfoCall == [op |-> "", arg |-> "", result |-> 0]

\* the parser fills a StreamInfo (StreamInfoDownloader::parseDumpItemStdOut)
InfoLoad ==
    /\ \E si \in InfoSamples : streamInfo' = si
    /\ infoCall' = NoInfoCall
    /\ UNCHANGED << processVars, formatIdVars, titleVars, hostCall >>

\* StreamInfo::setFormatId
InfoSetFormatId ==
    /\ \E formatId \in SeqsUpTo(InfoAtoms, MaxAtoms) :
          /\ streamInfo' = SetFormatId(streamInfo, formatId)
          /\ infoCall' = [op |-> "setFormatId", arg |-> formatId, result |-> 0]
    /\ UNCHANGED << processVars, formatIdVars, titleVars, hostCall >>

\* StreamInfo::setSuffix
InfoSetSuffix ==
    /\ \E suffix \in InfoSuffixes :
          /\ streamInfo' = SetSuffix(streamInfo, suffix)
          /\ infoCall' = [op |-> "setSuffix", arg |-> suffix, result |-> 0]
    /\ UNCHANGED << processVars, formatIdVars, titleVars, hostCall >>

\* StreamInfo::guestimateFullSize()
InfoGuestimateFullSize ==
    /\ infoCall' = [op |-> "guestimateFullSize", arg |-> FormatIdOf(streamInfo),
                    result |-> GuestimateFullSize(streamInfo, FormatIdOf(streamInfo))]
    /\ UNCHANGED << streamInfo, processVars, formatIdVars, titleVars, hostCall >>

InfoNext == InfoLoad \/ InfoSetFormatId \/ InfoSetSuffix \/ InfoGuestimateFullSize

\* StreamInfo::StreamInfo
InfoInit ==
    /\ streamInfo = StreamInfo0
    /\ infoCall = NoInfoCall

----------------------------------------------------------------------------
(* Properties of StreamInfo (SpecInfo) *)

\* C24: after setSuffix(defaultSuffix), suffix() returns defaultSuffix, whatever the
\* default format, the format the user selected and the formats are.
C24_SetDefaultSuffixGivesDefaultSuffix ==
    (infoCall.op = "setSuffix" /\ infoCall.arg = streamInfo.defaultSuffix)
        => Suffix(streamInfo) = streamInfo.defaultSuffix

\* the file size of the format with one atom as its id, 0 when there is none
SizeOfAtom(formats, atom) ==
    LET with == { j \in 1..Len(formats) : formats[j].formatId = << atom >> }
    IN  IF with = {} THEN 0 ELSE formats[CHOOSE j \in with : TRUE].filesize

RECURSIVE SumOfAtoms(_, _)
SumOfAtoms(formats, atoms) ==
    IF atoms = <<>> THEN 0
    ELSE SizeOfAtom(formats, Head(atoms)) + SumOfAtoms(formats, Tail(atoms))

ExpectedSize(formats, fid) == IF fid = <<>> THEN -1 ELSE SumOfAtoms(formats, fid)

\* C26: guestimateFullSize(fid) is -1 for the empty id, and otherwise the sum over the
\* atoms of fid, in order and each time an atom is repeated, of the file size of the
\* format with that id, 0 for an atom of no format.
C26_SizeIsSumOverAtoms ==
    /\ \A fid \in SeqsUpTo(InfoAtoms, MaxAtoms) :
          GuestimateFullSize(streamInfo, fid) = ExpectedSize(streamInfo.formats, fid)
    /\ infoCall.op = "guestimateFullSize" =>
          infoCall.result = ExpectedSize(streamInfo.formats, infoCall.arg)

\* the size of an id with a repeated atom, of one with an atom of no format, and of
\* the empty id
C26_Witness ==
    /\ streamInfo.formats = SampleFormats
    /\ streamInfo.m_userFormatId = << "22", "22" >>
    /\ infoCall.op = "guestimateFullSize"
    /\ infoCall.result = 200
    /\ GuestimateFullSize(streamInfo, << "251", "999" >>) = 40
    /\ GuestimateFullSize(streamInfo, <<>>) = -1

----------------------------------------------------------------------------
(* StreamInfo: the title and the file name made of it *)

\* QChar::isLetterOrNumber, on the characters of the model
IsLetterOrNumber(c) == c \in {"a", "7"}

C_LEGAL_CHARS ==
    {"-", "+", "'", " ", "@", "(", ")", "[", "]", "{", "}", "°", "#", ",", ".", "&"}

\* QString::simplified: no whitespace at either end, one space for each run between
Simplified(text) == Join(SplitSkipEmptyParts(text, Whitespace, 1, <<>>), " ")

\* the loop of cleanFileName over the characters
CleanChar(c) ==
    IF IsLetterOrNumber(c) \/ c \in C_LEGAL_CHARS THEN c
    ELSE IF c = "\"" THEN "'"
    ELSE "_"

\* ret.replace(QRegExp("_+"), "_")
RECURSIVE CollapseUnderscores(_)
CollapseUnderscores(text) ==
    IF Len(text) < 2 THEN text
    ELSE IF text[1] = "_" /\ text[2] = "_" THEN CollapseUnderscores(Tail(text))
    ELSE << text[1] >> \o CollapseUnderscores(Tail(text))

\* Mutant of cleanFileName: the runs of '_' are kept
CleanFileName_KeepsRuns(fileName) ==
    LET ret == Simplified(fileName)
    IN  Simplified([k \in 1..Len(ret) |-> CleanChar(ret[k])])

\* cleanFileName
CleanFileName(fileName) ==
    LET ret == Simplified(fileName)
    IN  Simplified(CollapseUnderscores([k \in 1..Len(ret) |-> CleanChar(ret[k])]))

\* StreamInfo::title
Title == IF m_userTitle = <<>> THEN defaultTitle ELSE m_userTitle

\* StreamInfo::fileBaseName
FileBaseName == CleanFileName(Title)

\* the characters of a title: a letter, a space (a legal character), a tab, a double
\* quote, an underscore, and a character that is neither legal nor a letter
TitleAlphabet == {"a", " ", "\t", "\"", "_", "/"}

\* the titles the extractor gives
DefaultTitles == { <<>>, << "a", "/", "a" >> }

\* the parser fills the title of a new StreamInfo (parseDumpItemStdOut, createStreamInfo)
TitleLoad ==
    /\ \E title \in DefaultTitles : defaultTitle' = title
    /\ m_userTitle' = <<>>
    /\ UNCHANGED << processVars, formatIdVars, infoVars, hostCall >>

\* StreamInfo::setTitle
TitleSetTitle ==
    /\ \E title \in SeqsUpTo(TitleAlphabet, MaxTitleChars) :
          m_userTitle' = IF title = defaultTitle THEN <<>> ELSE title
    /\ UNCHANGED << defaultTitle, processVars, formatIdVars, infoVars, hostCall >>

TitleNext == TitleLoad \/ TitleSetTitle

\* StreamInfo::StreamInfo
TitleInit ==
    /\ defaultTitle = <<>>
    /\ m_userTitle = <<>>

----------------------------------------------------------------------------
(* Properties of the file name (SpecTitle) *)

NoRunOfUnderscores(text) ==
    \A k \in 1..(Len(text) - 1) : ~(text[k] = "_" /\ text[k + 1] = "_")

TrimmedText(text) ==
    text = <<>> \/ (text[1] \notin Whitespace /\ text[Len(text)] \notin Whitespace)

\* C25 as the specification states it: fileBaseName() holds only letters, numbers and
\* characters of the legal set, no two consecutive '_', and no whitespace at either end.
C25_OnlyLettersNumbersLegal ==
    /\ \A k \in 1..Len(FileBaseName) :
          IsLetterOrNumber(FileBaseName[k]) \/ FileBaseName[k] \in C_LEGAL_CHARS
    /\ NoRunOfUnderscores(FileBaseName)
    /\ TrimmedText(FileBaseName)

\* C25: fileBaseName() holds only letters, numbers, characters of the legal set and
\* '_', no two consecutive '_', and no whitespace at either end.
C25_FileBaseNameIsClean ==
    /\ \A k \in 1..Len(FileBaseName) :
          \/ IsLetterOrNumber(FileBaseName[k])
          \/ FileBaseName[k] \in C_LEGAL_CHARS
          \/ FileBaseName[k] = "_"
    /\ NoRunOfUnderscores(FileBaseName)
    /\ TrimmedText(FileBaseName)

\* a title that holds a run of two replaced characters and a double quote
C25_Witness ==
    /\ m_userTitle = << "/", "_", "\"" >>
    /\ FileBaseName = << "_", "'" >>

----------------------------------------------------------------------------
(* Stream::matchesHost *)

\* what Qt::CaseInsensitive compares, on the characters of the model
LowerChar(c) == IF c = "A" THEN "a" ELSE c
LowerText(text) == [k \in 1..Len(text) |-> LowerChar(text[k])]

\* the characters of the class of QRegExp("[.|:]")
Delimiters == {".", "|", ":"}

\* matches(host, regexHost)
Matches(host, regexHost) ==
    LET domains == SplitSkipEmptyParts(host, {"."}, 1, <<>>)
        mandatoryDomains == SplitSkipEmptyParts(regexHost, Delimiters, 1, <<>>)
    IN  \A i \in 1..Len(mandatoryDomains) :
           \E j \in 1..Len(domains) :
              LowerText(domains[j]) = LowerText(mandatoryDomains[i])

\* Stream::matchesHost
MatchesHost(host, regexHosts) ==
    \E i \in 1..Len(regexHosts) : Matches(host, regexHosts[i])

HostAlphabet == {"a", "A", "b", "."}
PatternAlphabet == {"a", "b", ".", ":", "|"}

\* patterns of the lists of two
PatternSamples == { << "a" >>, << "b", ":", "a" >>, << "c" >> }

\* the lists of patterns: none, one pattern, two patterns
RegexHostLists ==
    { <<>> }
    \cup { << p >> : p \in SeqsUpTo(PatternAlphabet, MaxPatternChars) }
    \cup { << p, q >> : p \in PatternSamples, q \in PatternSamples }

NoHostCall == [host |-> <<>>, regexHosts |-> <<>>, called |-> FALSE, result |-> FALSE]


\* Stream::matchesHost(host, regexHosts)
CallMatchesHost ==
    /\ ~hostCall.called
    /\ hostCall' = [hostCall EXCEPT !.called = TRUE,
                                    !.result = MatchesHost(hostCall.host, hostCall.regexHosts)]
    /\ UNCHANGED << processVars, formatIdVars, infoVars, titleVars >>

HostNext == CallMatchesHost

----------------------------------------------------------------------------
(* Properties of Stream::matchesHost (SpecHost) *)

\* the tokens of a pattern as the specification splits it: on '.' and on ':'
PatternTokens(regexHost) == SplitSkipEmptyParts(regexHost, {".", ":"}, 1, <<>>)

\* every token of the pattern is, but for the case, a component of the host
EveryTokenIsAComponent(host, regexHost) ==
    LET components == SplitSkipEmptyParts(host, {"."}, 1, <<>>)
        tokens == PatternTokens(regexHost)
    IN  \A i \in 1..Len(tokens) :
           \E j \in 1..Len(components) : LowerText(components[j]) = LowerText(tokens[i])

\* the pattern with its tokens in the opposite order
ReversedPattern(regexHost) ==
    LET tokens == PatternTokens(regexHost)
    IN  Join([i \in 1..Len(tokens) |-> tokens[Len(tokens) + 1 - i]], ".")

\* C27: a host matches a pattern iff every token of the pattern (split on '.' or ':')
\* is, but for the case, a dot-component of the host; the order of the tokens does not
\* change the result; a list matches iff one of its patterns does.
C27_HostMatching ==
    hostCall.called =>
       /\ Len(hostCall.regexHosts) = 1 =>
             hostCall.result = EveryTokenIsAComponent(hostCall.host, hostCall.regexHosts[1])
       /\ \A i \in 1..Len(hostCall.regexHosts) :
             Matches(hostCall.host, hostCall.regexHosts[i])
                = Matches(hostCall.host, ReversedPattern(hostCall.regexHosts[i]))
       /\ hostCall.result = (\E i \in 1..Len(hostCall.regexHosts) :
                                EveryTokenIsAComponent(hostCall.host, hostCall.regexHosts[i]))

----------------------------------------------------------------------------
(* Specifications *)

\* every object as its constructor leaves it
ObjectsInit == StreamInit /\ CollectorInit /\ ExtractorListInit /\ FormatIdInit
               /\ InfoInit /\ TitleInit

Init == ObjectsInit /\ hostCall = NoHostCall

\* every object as its constructor leaves it, and one call of matchesHost to make
HostInit ==
    /\ ObjectsInit
    /\ \E host \in SeqsUpTo(HostAlphabet, MaxHostChars), regexHosts \in RegexHostLists :
          hostCall = [NoHostCall EXCEPT !.host = host, !.regexHosts = regexHosts]

\* The download driver
SpecStream == Init /\ [][StreamNext]_vars

\* The metadata collector and its cache purge
SpecCollector == Init /\ [][CollectorNext]_vars

\* The download driver set up and launched by its consumer
SpecLaunch == Init /\ [][LaunchNext]_vars

\* The extractor listing
SpecExtractorList == Init /\ [][ExtractorListNext]_vars

\* StreamFormatId
SpecFormatId == Init /\ [][FormatIdNext]_vars

\* StreamInfo
SpecInfo == Init /\ [][InfoNext]_vars

\* The title of a StreamInfo and its file name
SpecTitle == Init /\ [][TitleNext]_vars

\* The calls of Stream::matchesHost
SpecHost == HostInit /\ [][HostNext]_vars

============================================================================
